---- MODULE Spec2Model ----
(***************************************************************************)
(* Model of the invoice dispatch pipeline (sale-invoice-handler.js), the   *)
(* processing ledger (processing-results-manager.js) and the processed-    *)
(* invoice registry (main-process-handlers.js).                            *)
(*                                                                         *)
(* The renderer runs on one event loop: the code between two awaits of a   *)
(* handler is one atomic action.                                           *)
(*                                                                         *)
(* Time is kept relative.  Two calls of startInvoiceProcessing read        *)
(* different, increasing values of Date.now(), so the start time of an     *)
(* entry is the rank of its start among all starts and the ledger holds    *)
(* its entries in the order of their start times.  The field `stale` of an *)
(* entry says that its start now lies more than maxProcessingTime (10      *)
(* minutes) back; as time passes, a longer prefix of the ledger is stale.  *)
(***************************************************************************)
EXTENDS Integers, Sequences, FiniteSets, TLC

\* ---------------------------------------------------------------- bounds
MaxRuns == 1          \* processInvoice calls made by scheduled runs
MaxRetried == 1       \* processInvoice calls made by operator retries
MaxInFlight == 2      \* processInvoice calls in flight at the same time
MaxActiveRuns == 2    \* handleData calls in flight at the same time
MaxRegIds == 3        \* invoice ids offered to the registry
MaxKeep == 3          \* largest keepRecent passed to the clear handler
MaxTimerRuns == 6       \* handleData calls followed step by step
MaxActiveTasks == 1     \* those of them in flight at the same time
MaxInitialised == 3     \* calls of initializeStoklyAPI
RefillTicks == 2        \* ticks of the clock in one sleep of replenishTokens
MaxPageSize == 2        \* largest page size asked of a listing
MaxListed == 3          \* most items the upstream API holds for a listing
MaxAccumulated == 3     \* results and warnings passed to one tracker
MaxItems == 2         \* most line items of an invoice handed to the builder
DeepRuns == 2         \* the first two limits in the specification that
DeepRetried == 1      \* follows one invoice through several runs
LockRuns == 2         \* and in the specification of the run lock
CapRuns == 1          \* and in the specification that follows one invoice
CapRetried == 4       \* through repeated retries

\* An invoice id is invoice.saleOrderNiceId as the upstream API delivers it: a
\* JSON number or a JSON string.  The retry button carries it through a DOM
\* attribute, which always gives back a string.
IdNum == <<"num", 1>>
IdStr == <<"str", 2>>
Invoices == {IdNum, IdStr}
\* retryBtn.getAttribute('data-invoice-id') of data-invoice-id="${result.invoiceId}"
DomAttr(id) == <<"str", id[2]>>
AllIds == Invoices \cup {DomAttr(id) : id \in Invoices}
\* the sale invoice ids the registry handlers are called with
RegIds == {<<"num", k>> : k \in 1..MaxRegIds}
\* what the invoice listing of a run returns: n invoices of the order
Listing(id, n) == [k \in 1..n |-> id]

\* ------------------------------------------------------ program constants
maxRetries == 3

StepIds == <<"invoice", "items", "saleorder", "edi", "transmission">>
NumSteps == Len(StepIds)

NoData == <<"null">>
NoError == <<>>
NoReply == <<"none">>
StuckMessage == <<"Processing was reset due to stuck state">>

\* --------------------------------------------------------------- helpers
\* the search for a step id that takes the first step when the id is unknown
StepIndexOrFirst(stepId) ==
    IF \E k \in 1..NumSteps : StepIds[k] = stepId
    THEN CHOOSE k \in 1..NumSteps : StepIds[k] = stepId
    ELSE 1

StepIndex(stepId) ==
    IF \E k \in 1..NumSteps : StepIds[k] = stepId
    THEN CHOOSE k \in 1..NumSteps : StepIds[k] = stepId
    ELSE 0

\* uniqueKey = `${invoiceId}_${timestamp}`
KeyOf(r) == <<r.invoiceId, r.startTime>>

RECURSIVE SelectIdx(_, _, _)
\* the subsequence of s at the indices in S, in order, from index i on
SelectIdx(s, S, i) ==
    IF i > Len(s) THEN <<>>
    ELSE IF i \in S THEN <<s[i]>> \o SelectIdx(s, S, i + 1)
    ELSE SelectIdx(s, S, i + 1)

\* the reduce with the comparison turned round: the earliest start wins
FindOldest(res, invoiceId, status) ==
    LET S == {i \in DOMAIN res : res[i].invoiceId = invoiceId /\ res[i].status = status}
    IN  IF S = {} THEN 0
        ELSE CHOOSE i \in S : \A j \in S :
                \/ res[i].startTime < res[j].startTime
                \/ (res[j].startTime = res[i].startTime /\ i <= j)

\* processingResults.reduce((latest, current) =>
\*     current.startTime > latest.startTime ? current : latest)
\* over the entries of invoiceId in the given status; 0 when there is none
FindLatest(res, invoiceId, status) ==
    LET S == {i \in DOMAIN res : res[i].invoiceId = invoiceId /\ res[i].status = status}
    IN  IF S = {} THEN 0
        ELSE CHOOSE i \in S : \A j \in S :
                \/ res[j].startTime < res[i].startTime
                \/ (res[j].startTime = res[i].startTime /\ i <= j)

\* const result = this.results[uniqueKey]: the index of the entry an earlier
\* step created with identity oid, 0 once it has left the ledger
IndexOfOid(res, oid) ==
    IF \E i \in DOMAIN res : res[i].oid = oid
    THEN CHOOSE i \in DOMAIN res : res[i].oid = oid
    ELSE 0

\* ---------------------------------------------------------------- ledger
cleanupOldProcessingAttempts(m, invoiceId) ==
    LET gone == {i \in DOMAIN m.results :
                    m.results[i].invoiceId = invoiceId /\ m.results[i].status # "processing"}
        keys == {KeyOf(m.results[i]) : i \in gone}
    IN  IF gone = {} THEN m
        ELSE [m EXCEPT !.results = SelectIdx(m.results, DOMAIN m.results \ gone, 1),
                       !.processingQueue = @ \ keys,
                       !.retryAttempts = [@ EXCEPT ![invoiceId] = 0],
                       !.updateTimeout = TRUE]

NewResult(invoiceId, invoiceData, t, oid) ==
    [invoiceId |-> invoiceId, startTime |-> t, oid |-> oid, invoiceData |-> invoiceData,
     status |-> "processing",
     steps |-> [k \in 1..NumSteps |-> [status |-> "pending", error |-> NoError]],
     ediPayload |-> NoData, validationResult |-> NoData, error |-> NoError,
     manualTransmissionStatus |-> "none", stale |-> FALSE]

startInvoiceProcessing(m, invoiceId, invoiceData, t, oid) ==
    LET m1 == cleanupOldProcessingAttempts(m, invoiceId)
        r == NewResult(invoiceId, invoiceData, t, oid)
        same == {i \in DOMAIN m1.results : KeyOf(m1.results[i]) = KeyOf(r)}
    IN  [m1 EXCEPT !.processingQueue = @ \cup {KeyOf(r)},
                   !.results = IF same = {} THEN Append(@, r)
                               ELSE [i \in DOMAIN @ |-> IF i \in same THEN r ELSE @[i]],
                   !.updateTimeout = TRUE]

\* updateStepStatus without the filter on r.status === 'processing'
updateStepStatusAnyStatus(m, invoiceId, stepId, status, errorMessage, data) ==
    LET S == {l \in DOMAIN m.results : m.results[l].invoiceId = invoiceId}
        i == IF S = {} THEN 0
             ELSE CHOOSE l \in S : \A j \in S : m.results[j].startTime <= m.results[l].startTime
        k == StepIndex(stepId)
    IN  IF i = 0 \/ k = 0 THEN m
        ELSE
        LET r == m.results[i]
            steps1 == [r.steps EXCEPT ![k].status = status]
            r1 == IF status = "error"
                  THEN [r EXCEPT !.steps = [steps1 EXCEPT ![k].error = errorMessage],
                                 !.status = "error", !.error = errorMessage]
                  ELSE IF status = "success"
                  THEN [r EXCEPT !.steps = steps1,
                                 !.ediPayload = IF stepId = "edi" /\ data # NoData
                                                THEN data ELSE @,
                                 !.status = IF \A j \in 1..NumSteps : steps1[j].status = "success"
                                            THEN "success" ELSE @]
                  ELSE IF status = "processing"
                  THEN [r EXCEPT !.steps = steps1, !.status = "processing"]
                  ELSE [r EXCEPT !.steps = steps1]
            leaves == r1.status # "processing"
        IN  [m EXCEPT !.results = [@ EXCEPT ![i] = r1],
                      !.processingQueue = IF leaves THEN @ \ {KeyOf(r)} ELSE @,
                      !.updateTimeout = TRUE]

updateStepStatus(m, invoiceId, stepId, status, errorMessage, data) ==
    LET i == FindLatest(m.results, invoiceId, "processing")
        k == StepIndex(stepId)
    IN  IF i = 0 \/ k = 0 THEN m
        ELSE
        LET r == m.results[i]
            steps1 == [r.steps EXCEPT ![k].status = status]
            r1 == IF status = "error"
                  THEN [r EXCEPT !.steps = [steps1 EXCEPT ![k].error = errorMessage],
                                 !.status = "error", !.error = errorMessage]
                  ELSE IF status = "success"
                  THEN [r EXCEPT !.steps = steps1,
                                 !.ediPayload = IF stepId = "edi" /\ data # NoData
                                                THEN data ELSE @,
                                 !.status = IF \A j \in 1..NumSteps : steps1[j].status = "success"
                                            THEN "success" ELSE @]
                  ELSE IF status = "processing"
                  THEN [r EXCEPT !.steps = steps1, !.status = "processing"]
                  ELSE [r EXCEPT !.steps = steps1]
            leaves == r1.status # "processing"
        IN  [m EXCEPT !.results = [@ EXCEPT ![i] = r1],
                      !.processingQueue = IF leaves THEN @ \ {KeyOf(r)} ELSE @,
                      !.updateTimeout = TRUE]

completeInvoiceProcessing(m, invoiceId, ediPayload) ==
    LET i == FindLatest(m.results, invoiceId, "processing")
    IN  IF i = 0 THEN m
        ELSE
        LET r == m.results[i]
            r1 == [r EXCEPT !.status = "success", !.ediPayload = ediPayload,
                            !.steps = [k \in 1..NumSteps |->
                                IF r.steps[k].status \in {"pending", "processing"}
                                THEN [r.steps[k] EXCEPT !.status = "success"]
                                ELSE r.steps[k]]]
        IN  [m EXCEPT !.results = [@ EXCEPT ![i] = r1],
                      !.processingQueue = @ \ {KeyOf(r)},
                      !.updateTimeout = TRUE]

\* failInvoiceProcessing without the loop over the later steps
failInvoiceProcessingNoSkip(m, invoiceId, stepId, errorMessage) ==
    LET i == FindLatest(m.results, invoiceId, "processing")
    IN  IF i = 0 THEN m
        ELSE
        LET m1 == updateStepStatus(m, invoiceId, stepId, "error", errorMessage, NoData)
            r == m1.results[i]
        IN  [m1 EXCEPT !.processingQueue = @ \ {KeyOf(r)},
                       !.updateTimeout = TRUE]

failInvoiceProcessing(m, invoiceId, stepId, errorMessage) ==
    LET i == FindLatest(m.results, invoiceId, "processing")
    IN  IF i = 0 THEN m
        ELSE
        LET m1 == updateStepStatus(m, invoiceId, stepId, "error", errorMessage, NoData)
            stepIndex == StepIndex(stepId)
            r == m1.results[i]
            r1 == [r EXCEPT !.steps = [k \in 1..NumSteps |->
                                IF k > stepIndex
                                THEN [r.steps[k] EXCEPT !.status = "not-attempted"]
                                ELSE r.steps[k]]]
        IN  [m1 EXCEPT !.results = [@ EXCEPT ![i] = r1],
                       !.processingQueue = @ \ {KeyOf(r)},
                       !.updateTimeout = TRUE]

\* the sweep of updateDisplay
\* processingTime > maxProcessingTime, with processingTime = now - startTime
TooLong(r) == r.stale

\* the test of cleanupStuckProcessing without the processing time: every
\* entry in processing counts as stuck
IsStuckAnyAge(m, r) ==
    r.status = "processing"

IsStuck(m, r) ==
    /\ r.status = "processing"
    /\ (KeyOf(r) \notin m.processingQueue \/ TooLong(r))

cleanupStuckProcessing(m) ==
    LET stuck == {i \in DOMAIN m.results : IsStuck(m, m.results[i])}
    IN  IF stuck = {} THEN m
        ELSE [m EXCEPT !.results = [i \in DOMAIN @ |->
                            IF i \in stuck
                            THEN [@[i] EXCEPT !.status = "error", !.error = StuckMessage]
                            ELSE @[i]],
                       !.processingQueue = @ \ {KeyOf(m.results[i]) : i \in stuck},
                       !.updateTimeout = TRUE]

\* the retry buttons createResultElement renders: one per entry in error,
\* without payload, whose invoice has retries left
RetryButtonsOf(m) ==
    {m.results[i].invoiceId : i \in {j \in DOMAIN m.results :
        /\ m.results[j].status = "error"
        /\ m.retryAttempts[m.results[j].invoiceId] < maxRetries
        /\ m.results[j].ediPayload = NoData}}

\* isProcessingActive = false; processingStartTime = null
NoLock == [active |-> FALSE, stale |-> FALSE]

\* checkForStuckProcessing(): processingDuration > maxProcessingTime
checkForStuckProcessing(l) == l.active /\ l.stale

\* ----------------------------------------------------------------- state
VARIABLES
    results,            \* this.results, in insertion order
    processingQueue,    \* this.processingQueue
    retryAttempts,      \* this.retryAttempts
    updateTimeout,      \* a debounced updateDisplay is pending
    retryButtons,       \* invoice ids of the retry buttons now in the DOM
    procs,              \* the processInvoice calls in flight, by attempt number
    attempts,           \* processInvoice calls made so far
    retried,            \* those of them made by retryInvoiceProcessing
    limit,              \* the calls a behaviour may make, by origin
    run,                \* the handleData calls in flight: invoices left, current attempt
    lock,               \* isProcessingActive, and whether processingStartTime
                        \* lies more than maxProcessingTime back
    manuals,            \* transmitEdiManually invocations awaiting the transport
    order,              \* the sale order nice id the upstream API lists invoices of
    processedIds,       \* store 'processedInvoices'.invoiceIds
    lastCleanupOld,     \* store 'processedInvoices'.lastCleanup lies over a day back
    ipcReply,           \* what the last registry handler returned
    marked,             \* history: the ids marked since the last clear, and
                        \* those the last clear kept
    edi,                \* a call of buildEDIFACTInvoice: its arguments and,
                        \* once it has returned, what it returned
    tracker,            \* an EDIValidationTracker under observation
    accumulated,        \* history: what has been passed to that tracker, in order
    tokens,             \* the API client's token count
    replenish,          \* the replenishTokens loops asleep: ticks until each wakes
    sent,               \* history: requests sent since the loop started first
                        \* last refilled the tokens
    loop,               \* a call of loopThrough: its arguments, locals and result
    isApiInitialized,   \* timer-task.js: isApiInitialized
    consecutiveFailures, \* timer-task.js: consecutiveFailures
    backoffMultiplier,  \* timer-task.js: backoffMultiplier, in 32nds
    task,               \* the handleData calls in flight, followed step by step
    started,            \* handleData calls that took the lock so far
    ended,              \* history: how the handleData call that ended last ended
    staleSession,       \* history: a run failed on authentication and
                        \* initializeStoklyAPI has not succeeded since
    lastInvoiceRunDate, \* the saved configuration's lastInvoiceRunDate, "" when
                        \* the key is absent
    listed,             \* history: the filter of the last invoice listing and
                        \* the last-run date sendData had loaded for it
    actuallySendToFtp,  \* DEBUG_FLAGS.ACTUALLY_SEND_TO_FTP
    transmitted         \* history: the invoices the transport has accepted

regVars == <<lastCleanupOld, ipcReply, marked>>

\* the objects observed on their own, outside the dispatch pipeline
trackerVars == <<tracker, accumulated>>
apiVars == <<tokens, replenish, sent, loop>>
timerVars == <<isApiInitialized, consecutiveFailures, backoffMultiplier, task, started,
               ended, staleSession, lastInvoiceRunDate, listed>>
auxVars == <<trackerVars, apiVars, timerVars>>

vars == <<results, processingQueue, retryAttempts, updateTimeout, retryButtons,
          procs, attempts, retried, limit, run, lock, manuals, order, processedIds, regVars, edi, auxVars,
          actuallySendToFtp, transmitted>>

Mgr == [results |-> results, processingQueue |-> processingQueue,
        retryAttempts |-> retryAttempts, updateTimeout |-> updateTimeout]

SetMgr(m) ==
    /\ results' = m.results
    /\ processingQueue' = m.processingQueue
    /\ retryAttempts' = m.retryAttempts
    /\ updateTimeout' = m.updateTimeout

\* no call of the builder under observation
NoCall == [returned |-> FALSE, arguments |-> <<>>, result |-> <<>>]

\* the state after construction, the builder call left open
InitLedger(lim, builds) ==
    /\ results = <<>>
    /\ processingQueue = {}
    /\ retryAttempts = [id \in AllIds |-> 0]
    /\ updateTimeout = FALSE
    /\ retryButtons = {}
    /\ procs = <<>>
    /\ attempts = 0
    /\ retried = 0
    /\ limit = lim
    /\ run = <<>>
    /\ lock = NoLock
    /\ manuals = {}
    /\ order \in Invoices
    /\ processedIds = <<>>
    /\ lastCleanupOld = FALSE
    /\ ipcReply = NoReply
    /\ marked = {}
    /\ actuallySendToFtp \in builds
    /\ transmitted = {}

\* const maxTokensToHold = 10 of the API client
maxTokensToHold == 10

\* a multiplier as the number of its 32nds: every value the code computes
\* below the cap is 2^a * 1.5^b with b <= 5
Thirtyseconds(n) == n * 32

\* no call of loopThrough under observation
NoLoop == [size |-> 1, total |-> 0, page |-> 0, count |-> 0, handed |-> <<>>,
           pending |-> FALSE, returned |-> TRUE]

\* the objects observed on their own, as the scripts leave them when loaded
InitAux ==
    /\ tracker = [invalidFields |-> <<>>, warnings |-> <<>>, isValid |-> TRUE]
    /\ accumulated = <<>>
    /\ tokens = maxTokensToHold
    /\ replenish = <<>>
    /\ sent = 0
    /\ loop = NoLoop
    /\ isApiInitialized = FALSE
    /\ consecutiveFailures = 0
    /\ backoffMultiplier = Thirtyseconds(1)
    /\ task = <<>>
    /\ started = 0
    /\ ended = [how |-> "none", category |-> "none"]
    /\ staleSession = FALSE
    /\ lastInvoiceRunDate = ""
    /\ listed = <<>>

InitWith(lim, builds) ==
    /\ InitLedger(lim, builds)
    /\ edi = NoCall
    /\ InitAux

\* the build that transmits: DEBUG_FLAGS.ACTUALLY_SEND_TO_FTP set.  The build
\* with the flag cleared replaces the two awaits of the transmission step by
\* an immediate success, so its ledger states are among those of this build.
Init == InitWith([runs |-> MaxRuns, retries |-> MaxRetried], {TRUE})

\* scheduled processInvoice calls the behaviour may still make: the limit
\* less the calls made and the listed invoices still to be dispatched
RunsLeft ==
    limit.runs - (attempts - retried)
        - Cardinality({rk \in (DOMAIN run) \X (1..limit.runs) :
                          rk[2] <= Len(run[rk[1]].todo)})

\* ------------------------------------------------- dispatch pipeline steps
EdiOf(p) == <<"edi", p>>                 \* ediResult.ediPayload of attempt p
ValidationOf(p) == <<"validation", p>>   \* ediResult.validation of attempt p
InvoiceTok == <<"invoice">>

\* processInvoice up to its first await (the items request)
processInvoiceBegin(m, invoiceId, invoiceData, t, p) ==
    LET m1 == startInvoiceProcessing(m, invoiceId, invoiceData, t, p)
        m2 == updateStepStatus(m1, invoiceId, "invoice", "success", NoError, InvoiceTok)
    IN  updateStepStatus(m2, invoiceId, "items", "processing", NoError, NoData)

NewProc(invoiceId, invoiceData, origin) ==
    [invoiceId |-> invoiceId, invoiceData |-> invoiceData, origin |-> origin,
     pc |-> "items"]

AddProc(f, p, rec) == [q \in DOMAIN f \cup {p} |-> IF q = p THEN rec ELSE f[q]]
DropProc(f, p) == [q \in DOMAIN f \ {p} |-> f[q]]

\* the branch of processInvoice taken when ediResult.validation.hasUndefinedData
validationGate(m, invoiceId, p) ==
    LET S == {i \in DOMAIN m.results :
                /\ m.results[i].invoiceId = invoiceId
                /\ m.results[i].status \in {"processing", "error"}}
    IN  IF S = {} THEN m
        ELSE
        LET i == CHOOSE j \in S : \A l \in S : j <= l
            m1 == [m EXCEPT !.results[i].ediPayload = EdiOf(p),
                            !.results[i].validationResult = ValidationOf(p),
                            !.results[i].status = "error",
                            !.results[i].error = <<"EDI contains undefined data">>]
            m2 == updateStepStatus(m1, invoiceId, "edi", "success",
                                   <<"Generated with validation warnings">>, ValidationOf(p))
            m3 == updateStepStatus(m2, invoiceId, "transmission", "not-attempted",
                                   <<"Skipped due to EDI validation failure">>, NoData)
        IN  [m3 EXCEPT !.processingQueue = @ \ {KeyOf(m.results[i])},
                       !.updateTimeout = TRUE]

\* the success branch after the transport (or the debug stub) reported success
transmissionSucceeded(m, invoiceId, p) ==
    completeInvoiceProcessing(
        updateStepStatus(m, invoiceId, "transmission", "success", NoError, <<"result", p>>),
        invoiceId, EdiOf(p))

\* the outer catch of processInvoice
unexpectedError(m, invoiceId, msg) ==
    failInvoiceProcessing(m, invoiceId, "invoice", <<"Unexpected error: ">> \o msg)

\* updateDisplay(): the sweep, then the rendering of the result elements
updateDisplay(m) == cleanupStuckProcessing(m)

\* error messages of the collaborators
ItemsError == <<"items request failed">>
SaleOrderError == <<"sale order request failed">>
BuildError == <<"barcode lookup failed">>
NoCredentialsError == <<"No FTP credentials configured. Please configure FTP credentials first.">>
TransportError == <<"upload failed">>

\* ---------------------------------------------------------- scheduled run
\* a handleData call that has taken the lock and awaits credentials, the API
\* initialisation and the invoice listing; `old` says that the call began
\* more than maxProcessingTime ago
NewRun == [todo |-> <<>>, cur |-> 0, old |-> FALSE]

FreeRun == CHOOSE r \in 1..MaxActiveRuns : r \notin DOMAIN run

\* handleData without the test of isProcessingActive
HandleDataNoLock ==
    /\ Cardinality(DOMAIN run) < MaxActiveRuns
    /\ RunsLeft > 0
    /\ lock' = [active |-> TRUE, stale |-> FALSE]
    /\ run' = AddProc(run, FreeRun, NewRun)
    /\ UNCHANGED <<results, processingQueue, retryAttempts, updateTimeout, retryButtons,
                   procs, attempts, retried, limit, manuals, order, processedIds, regVars, edi, auxVars,
                   actuallySendToFtp, transmitted>>

\* a trigger (timer or manual) calls handleData, up to its first await: it
\* returns at once while the lock is held and not stuck; otherwise it resets a
\* stuck lock, takes the lock and goes on
HandleData ==
    IF lock.active /\ ~checkForStuckProcessing(lock)
    THEN UNCHANGED vars
    ELSE /\ Cardinality(DOMAIN run) < MaxActiveRuns
         /\ RunsLeft > 0
         /\ lock' = [active |-> TRUE, stale |-> FALSE]
         /\ run' = AddProc(run, FreeRun, NewRun)
         /\ UNCHANGED <<results, processingQueue, retryAttempts, updateTimeout,
                        retryButtons, procs, attempts, retried, limit, manuals, order,
                        processedIds, regVars, edi, auxVars, actuallySendToFtp, transmitted>>

\* time passes: the latest handleData call, which set processingStartTime,
\* and with it every call in flight, now began over 10 minutes ago
LockAges ==
    /\ (lock.active /\ ~lock.stale) \/ (\E r \in DOMAIN run : ~run[r].old)
    /\ lock' = [lock EXCEPT !.stale = lock.active]
    /\ run' = [r \in DOMAIN run |-> [run[r] EXCEPT !.old = TRUE]]
    /\ UNCHANGED <<results, processingQueue, retryAttempts, updateTimeout, retryButtons,
                   procs, attempts, retried, limit, manuals, order, processedIds, regVars, edi, auxVars,
                   actuallySendToFtp, transmitted>>

\* handleData call r returns or throws before sendData dispatches an invoice
\* (no credentials, API not available, initialisation or listing failed, or
\* an empty listing); its finally clears the lock
RunAborts(r) ==
    /\ r \in DOMAIN run
    /\ run[r].cur = 0
    /\ run' = DropProc(run, r)
    /\ lock' = NoLock
    /\ UNCHANGED <<results, processingQueue, retryAttempts, updateTimeout, retryButtons,
                   procs, attempts, retried, limit, manuals, order, processedIds, regVars, edi, auxVars,
                   actuallySendToFtp, transmitted>>

\* sendData without the await on processInvoice: the loop goes on while the
\* call is in flight
SendDataBeginNoAwait(r, n) ==
    /\ r \in DOMAIN run
    /\ run[r].cur = 0
    /\ n \in 1..RunsLeft
    /\ Cardinality(DOMAIN procs) < MaxInFlight
    /\ LET p == attempts + 1
       IN  /\ SetMgr(processInvoiceBegin(Mgr, order, "invoice", p, p))
           /\ procs' = AddProc(procs, p, NewProc(order, "invoice", "run"))
           /\ run' = [run EXCEPT ![r].todo = Tail(Listing(order, n))]
    /\ attempts' = attempts + 1
    /\ UNCHANGED <<retryButtons, retried, limit, lock, manuals, order, processedIds, regVars, edi, auxVars,
                   actuallySendToFtp, transmitted>>

\* the listing of call r arrives with n invoices; for (const invoice of invoices)
\*     await processInvoice(invoice.saleOrderNiceId, invoice, csvData)
\* enters its first iteration
SendDataBegin(r, n) ==
    /\ r \in DOMAIN run
    /\ run[r].cur = 0
    /\ n \in 1..RunsLeft
    /\ Cardinality(DOMAIN procs) < MaxInFlight
    /\ LET p == attempts + 1
       IN  /\ SetMgr(processInvoiceBegin(Mgr, order, "invoice", p, p))
           /\ procs' = AddProc(procs, p, NewProc(order, "invoice", "run"))
           /\ run' = [run EXCEPT ![r].todo = Tail(Listing(order, n)), ![r].cur = p]
    /\ attempts' = attempts + 1
    /\ UNCHANGED <<retryButtons, retried, limit, lock, manuals, order, processedIds, regVars, edi, auxVars,
                   actuallySendToFtp, transmitted>>

\* --------------------------------------------- processInvoice, await by await
ProcFrame == <<retryButtons, retried, limit, manuals, order, processedIds, regVars, edi, auxVars,
               actuallySendToFtp>>

\* an await of attempt p resolves and the attempt goes on to its next await
Continue(m, p, pc) ==
    /\ SetMgr(m)
    /\ procs' = [procs EXCEPT ![p].pc = pc]
    /\ UNCHANGED <<run, lock, attempts>>

\* processInvoice of attempt p returns, leaving the ledger as m.  When the
\* scheduled run awaits it, the loop of sendData goes on in the same turn of
\* the event loop: the next invoice is begun, or sendData returns and the
\* finally of handleData clears the lock.
Finish(m, p) ==
    LET rest == DropProc(procs, p)
        q == attempts + 1
        R == {r \in DOMAIN run : run[r].cur = p}
    IN  IF R = {}
        THEN /\ SetMgr(m) /\ procs' = rest /\ UNCHANGED <<run, lock, attempts>>
        ELSE LET r == CHOOSE x \in R : TRUE IN
             IF run[r].todo = <<>>
             THEN /\ SetMgr(m) /\ procs' = rest /\ UNCHANGED attempts
                  /\ run' = DropProc(run, r)
                  /\ lock' = NoLock
             ELSE /\ SetMgr(processInvoiceBegin(m, Head(run[r].todo), "invoice", q, q))
                  /\ procs' = AddProc(rest, q, NewProc(Head(run[r].todo), "invoice", "run"))
                  /\ run' = [run EXCEPT ![r].todo = Tail(@), ![r].cur = q]
                  /\ attempts' = q
                  /\ UNCHANGED lock

\* the items request returns
ItemsDone(p, ok) ==
    /\ procs[p].pc = "items"
    /\ LET id == procs[p].invoiceId IN
       IF ok
       THEN Continue(updateStepStatus(
                     updateStepStatus(Mgr, id, "items", "success", NoError, <<"items">>),
                     id, "saleorder", "processing", NoError, NoData), p, "saleorder")
       ELSE Finish(failInvoiceProcessing(Mgr, id, "items",
                        <<"Failed to retrieve items: ">> \o ItemsError), p)
    /\ UNCHANGED <<ProcFrame, transmitted>>

\* the sale order request returns
SaleOrderDone(p, ok) ==
    /\ procs[p].pc = "saleorder"
    /\ LET id == procs[p].invoiceId IN
       IF ok
       THEN Continue(updateStepStatus(
                     updateStepStatus(Mgr, id, "saleorder", "success", NoError, <<"saleorder">>),
                     id, "edi", "processing", NoError, NoData), p, "build")
       ELSE Finish(failInvoiceProcessing(Mgr, id, "saleorder",
                        <<"Failed to retrieve sale order: ">> \o SaleOrderError), p)
    /\ UNCHANGED <<ProcFrame, transmitted>>

\* buildEDIFACTInvoice returns or throws.  A retry calls processInvoice without
\* csvData, so csvData?.GLN is undefined and the summary always has
\* hasUndefinedData; a scheduled run can get any of the three outcomes.
BuildOutcomes(origin) ==
    IF origin = "retry" THEN {"threw", "undefined"} ELSE {"threw", "undefined", "valid"}

\* BuildDone without the return that ends the hasUndefinedData branch
BuildDoneNoReturn(p, outcome) ==
    /\ procs[p].pc = "build"
    /\ outcome \in BuildOutcomes(procs[p].origin)
    /\ LET id == procs[p].invoiceId IN
       CASE outcome = "threw" ->
              Finish(failInvoiceProcessing(Mgr, id, "edi",
                          <<"Failed to generate EDI: ">> \o BuildError), p)
         [] outcome = "undefined" ->
              Continue(validationGate(Mgr, id, p), p, "creds")
         [] outcome = "valid" ->
              LET m1 == updateStepStatus(Mgr, id, "edi", "success", NoError, NoData)
                  m2 == updateStepStatus(m1, id, "transmission", "processing", NoError, NoData)
              IN  IF actuallySendToFtp
                  THEN Continue(m2, p, "creds")
                  ELSE Finish(transmissionSucceeded(m2, id, p), p)
    /\ UNCHANGED <<ProcFrame, transmitted>>

BuildDone(p, outcome) ==
    /\ procs[p].pc = "build"
    /\ outcome \in BuildOutcomes(procs[p].origin)
    /\ LET id == procs[p].invoiceId IN
       CASE outcome = "threw" ->
              Finish(failInvoiceProcessing(Mgr, id, "edi",
                          <<"Failed to generate EDI: ">> \o BuildError), p)
         [] outcome = "undefined" ->
              Finish(validationGate(Mgr, id, p), p)
         [] outcome = "valid" ->
              LET m1 == updateStepStatus(Mgr, id, "edi", "success", NoError, NoData)
                  m2 == updateStepStatus(m1, id, "transmission", "processing", NoError, NoData)
              IN  IF actuallySendToFtp
                  THEN Continue(m2, p, "creds")
                  ELSE Finish(transmissionSucceeded(m2, id, p), p)
    /\ UNCHANGED <<ProcFrame, transmitted>>

\* getFtpCredentials returns; with credentials the transport is invoked
CredsDone(p, ok) ==
    /\ procs[p].pc = "creds"
    /\ IF ok
       THEN /\ procs' = [procs EXCEPT ![p].pc = "transmit"]
                    /\ UNCHANGED <<results, processingQueue, retryAttempts, updateTimeout, run, lock,
                           attempts>>
       ELSE Finish(unexpectedError(Mgr, procs[p].invoiceId, NoCredentialsError), p)
    /\ UNCHANGED <<ProcFrame, transmitted>>

\* the transport returns {success: true}, returns {success: false} or throws
TransmitDone(p, ok) ==
    /\ procs[p].pc = "transmit"
    /\ IF ok
       THEN Finish(transmissionSucceeded(Mgr, procs[p].invoiceId, p), p)
       ELSE Finish(unexpectedError(Mgr, procs[p].invoiceId, TransportError), p)
    /\ transmitted' = IF ok THEN transmitted \cup {procs[p].invoiceId} ELSE transmitted
    /\ UNCHANGED ProcFrame

\* ------------------------------------------------------------ operator retry
\* processingQueue.add(invoiceId) when no failed entry was found
BareKey(id) == <<id, -1>>

resetForRetry(r) ==
    [r EXCEPT !.status = "processing", !.error = NoError,
              !.steps = [k \in 1..NumSteps |->
                  IF r.steps[k].status \in {"error", "not-attempted"}
                  THEN [status |-> "pending", error |-> NoError]
                  ELSE r.steps[k]]]

\* retryInvoiceProcessing up to the first await of the processInvoice it calls
Retry(id) ==
    /\ \E b \in retryButtons : id = DomAttr(b)
    /\ retried < limit.retries
    /\ Cardinality(DOMAIN procs) < MaxInFlight
    /\ retryAttempts[id] < maxRetries
    /\ LET m1 == [Mgr EXCEPT !.retryAttempts[id] = @ + 1]
           i == FindLatest(m1.results, id, "error")
           m2 == IF i = 0 THEN m1
                 ELSE [m1 EXCEPT !.results[i] = resetForRetry(@)]
           m3 == [m2 EXCEPT !.processingQueue =
                     @ \cup {IF i = 0 THEN BareKey(id) ELSE KeyOf(m1.results[i])}]
           m4 == updateDisplay(m3)
           data == IF i = 0 THEN "empty" ELSE m1.results[i].invoiceData
           p == attempts + 1
       IN  /\ SetMgr(processInvoiceBegin(m4, id, data, p, p))
           /\ retryButtons' = RetryButtonsOf(m4)
           /\ procs' = AddProc(procs, p, NewProc(id, data, "retry"))
    /\ attempts' = attempts + 1
    /\ retried' = retried + 1
    /\ UNCHANGED <<limit, run, lock, manuals, order, processedIds, regVars, edi, auxVars, actuallySendToFtp, transmitted>>

\* ------------------------------------------------------- display and clock
\* the debounce timer fires: updateDisplay()
UpdateDisplayTimer ==
    /\ updateTimeout
    /\ LET m1 == updateDisplay([Mgr EXCEPT !.updateTimeout = FALSE])
       IN  /\ SetMgr(m1)
           /\ retryButtons' = RetryButtonsOf(m1)
    /\ UNCHANGED <<procs, attempts, retried, limit, run, lock, manuals, order,
                   processedIds, regVars, edi, auxVars, actuallySendToFtp, transmitted>>

\* time passes: the starts of the first k ledger entries now lie over 10
\* minutes back
TimePasses(k) ==
    /\ k \in DOMAIN results
    /\ ~results[k].stale
    /\ results' = [i \in DOMAIN results |->
                       IF i <= k THEN [results[i] EXCEPT !.stale = TRUE] ELSE results[i]]
    /\ UNCHANGED <<processingQueue, retryAttempts, updateTimeout, retryButtons,
                   procs, attempts, retried, limit, run, lock, manuals, order, processedIds, regVars, edi, auxVars,
                   actuallySendToFtp, transmitted>>

\* ------------------------------------------------------- operator actions
RemoveAt(seq, i) == SelectIdx(seq, DOMAIN seq \ {i}, 1)

UiFrame == <<procs, attempts, retried, limit, run, lock, order, processedIds, regVars, edi, auxVars,
             actuallySendToFtp, transmitted>>

\* dismissResult(uniqueKey), confirmed
DismissResult(i) ==
    /\ i \in DOMAIN results
    /\ LET r == results[i]
           m1 == [Mgr EXCEPT !.retryAttempts[r.invoiceId] = 0,
                             !.processingQueue = @ \ {KeyOf(r)},
                             !.results = RemoveAt(@, i)]
           m2 == updateDisplay(m1)
       IN  /\ SetMgr(m2)
           /\ retryButtons' = RetryButtonsOf(m2)
    /\ UNCHANGED manuals
    /\ UNCHANGED UiFrame

\* clearAllResults(), confirmed, with the three filters active as constructed:
\* every entry falls in one of the categories and is removed
ClearAllResults ==
    /\ results # <<>>
    /\ LET ids == {results[i].invoiceId : i \in DOMAIN results}
           m1 == [Mgr EXCEPT !.retryAttempts = [id \in AllIds |->
                                                   IF id \in ids THEN 0 ELSE @[id]],
                             !.processingQueue = @ \ {KeyOf(results[i]) : i \in DOMAIN results},
                             !.results = <<>>]
           m2 == updateDisplay(m1)
       IN  /\ SetMgr(m2)
           /\ retryButtons' = RetryButtonsOf(m2)
    /\ UNCHANGED manuals
    /\ UNCHANGED UiFrame

EditedTok == <<"edited">>

\* saveEditedEdi(uniqueKey) from the edit modal, which opens on entries with a payload
SaveEditedEdi(i) ==
    /\ i \in DOMAIN results
    /\ results[i].ediPayload # NoData
    /\ LET m1 == [Mgr EXCEPT !.results[i].ediPayload = EditedTok]
           m2 == updateDisplay(m1)
       IN  /\ SetMgr(m2)
           /\ retryButtons' = RetryButtonsOf(m2)
    /\ UNCHANGED manuals
    /\ UNCHANGED UiFrame

\* transmitEdiManually up to its await of manuallyTransmitEdi
transmitEdiManuallyBegin(m, i) ==
    updateDisplay([m EXCEPT !.results[i].manualTransmissionStatus = "processing"])

\* saveAndTransmitEditedEdi(uniqueKey)
SaveAndTransmitEditedEdi(i) ==
    /\ i \in DOMAIN results
    /\ results[i].ediPayload # NoData
    /\ results[i].oid \notin manuals
    /\ LET m1 == [Mgr EXCEPT !.results[i].ediPayload = EditedTok]
           m2 == transmitEdiManuallyBegin(m1, i)
       IN  /\ SetMgr(m2)
           /\ retryButtons' = RetryButtonsOf(m2)
    /\ manuals' = manuals \cup {results[i].oid}
    /\ UNCHANGED UiFrame

\* resendEdiPayload(uniqueKey), confirmed; the button is rendered on
\* successful entries with a payload
ResendEdiPayload(i) ==
    /\ i \in DOMAIN results
    /\ results[i].ediPayload # NoData
    /\ results[i].status = "success"
    /\ results[i].oid \notin manuals
    /\ LET m2 == transmitEdiManuallyBegin(Mgr, i)
       IN  /\ SetMgr(m2)
           /\ retryButtons' = RetryButtonsOf(m2)
    /\ manuals' = manuals \cup {results[i].oid}
    /\ UNCHANGED UiFrame

\* manuallyTransmitEdi returns or throws; transmitEdiManually records it on the
\* result object it holds, which may have left the ledger meanwhile
ManualTransmitDone(oid, ok) ==
    /\ oid \in manuals
    /\ LET m1 == [Mgr EXCEPT !.results = [i \in DOMAIN @ |->
                        IF @[i].oid = oid
                        THEN [@[i] EXCEPT !.manualTransmissionStatus =
                                              IF ok THEN "success" ELSE "error"]
                        ELSE @[i]]]
           m2 == updateDisplay(m1)
       IN  /\ SetMgr(m2)
           /\ retryButtons' = RetryButtonsOf(m2)
    /\ manuals' = manuals \ {oid}
    /\ UNCHANGED UiFrame

\* ----------------------------------------------- processed-invoice registry
InSeq(seq, x) == \E i \in DOMAIN seq : seq[i] = x

\* markInvoiceAsProcessed pushing onto the array without the Set
markInvoiceAsProcessedNoSet(ids, saleInvoiceId) == Append(ids, saleInvoiceId)

\* Array.from(new Set(invoiceIds).add(saleInvoiceId))
markInvoiceAsProcessed(ids, saleInvoiceId) ==
    IF InSeq(ids, saleInvoiceId) THEN ids ELSE Append(ids, saleInvoiceId)

isInvoiceProcessed(ids, saleInvoiceId) == InSeq(ids, saleInvoiceId)

\* the value markInvoiceAsProcessed returns, with the negation dropped
markInvoiceAsProcessedWasAlready(ids, saleInvoiceId) == InSeq(ids, saleInvoiceId)

\* return !wasAlreadyProcessed
markInvoiceAsProcessedReturn(ids, saleInvoiceId) == ~InSeq(ids, saleInvoiceId)

\* getInvoiceProcessingStats().totalProcessed
totalProcessed(ids) == Len(ids)

\* clearProcessedInvoiceHistory: invoiceIds.slice(-keepRecent) when keepRecent
\* is positive and smaller than the length, [] otherwise
clearProcessedInvoiceHistory(ids, keepRecent) ==
    IF keepRecent > 0 /\ Len(ids) > keepRecent
    THEN SubSeq(ids, Len(ids) - keepRecent + 1, Len(ids))
    ELSE <<>>

RegFrame == <<results, processingQueue, retryAttempts, updateTimeout, retryButtons,
              procs, attempts, retried, limit, run, lock, manuals, order, edi, auxVars,
              actuallySendToFtp, transmitted>>

\* the 'mark-invoice-processed' IPC handler, reached from the debug console
MarkInvoiceProcessed(id) ==
    /\ processedIds' = markInvoiceAsProcessed(processedIds, id)
    /\ ipcReply' = <<"mark", markInvoiceAsProcessedReturn(processedIds, id)>>
    /\ marked' = marked \cup {id}
    /\ UNCHANGED <<lastCleanupOld, RegFrame>>

\* the 'get-invoice-stats' IPC handler
GetInvoiceStats ==
    /\ ipcReply' = <<"stats", totalProcessed(processedIds)>>
    /\ UNCHANGED <<processedIds, lastCleanupOld, marked, RegFrame>>

\* the 'export-processed-invoices' IPC handler: the stats and the sorted ids
ExportProcessedInvoices ==
    /\ ipcReply' = <<"export", totalProcessed(processedIds)>>
    /\ UNCHANGED <<processedIds, lastCleanupOld, marked, RegFrame>>

\* the 'clear-processed-invoices' IPC handler
ClearProcessedInvoices(keepRecent) ==
    /\ processedIds' = clearProcessedInvoiceHistory(processedIds, keepRecent)
    /\ ipcReply' = <<"clear", Len(processedIds) - Len(processedIds'), Len(processedIds')>>
    /\ lastCleanupOld' = FALSE
    /\ marked' = {processedIds'[k] : k \in DOMAIN processedIds'}
    /\ UNCHANGED RegFrame

\* the application starts again on the store it left: setupInvoiceTracking
\* runs cleanupOldProcessedInvoices, which keeps all records and writes
\* lastCleanup when the last one lies over a day back
SetupInvoiceTracking ==
    /\ IF lastCleanupOld
       THEN /\ lastCleanupOld' = FALSE
            /\ ipcReply' = <<"cleanup", totalProcessed(processedIds)>>
       ELSE /\ ipcReply' = <<"cleanup", "skipped">>
            /\ UNCHANGED lastCleanupOld
    /\ UNCHANGED <<processedIds, marked, RegFrame>>

\* more than a day passes since lastCleanup
DayPasses ==
    /\ ~lastCleanupOld
    /\ lastCleanupOld' = TRUE
    /\ UNCHANGED <<processedIds, ipcReply, marked, RegFrame>>

\* ------------------------------------------------------ the EDIFACT builder
\* A JavaScript value is a triple <<type, number, text>>.  Numbers are held
\* in hundredths: Num(n) is the number n/100.  A string is Str(text); a
\* string that Number() reads as a number has the type "numeric" and carries
\* the number it reads as beside its text.
Undefined == <<"undefined", 0, "">>
Null == <<"null", 0, "">>
Str(s) == <<"string", 0, s>>
Num(n) == <<"number", n, "">>
NaN == <<"NaN", 0, "">>
Infinity == <<"Infinity", 0, "">>
NumericStr(n, s) == <<"numeric", n, s>>

IsString(v) == v[1] \in {"string", "numeric"}

\* the texts String.prototype.trim() empties
WhitespaceTexts == {"", " ", "  "}

\* the text contains the other
Includes(s, c) == \E i \in 1..(Len(s) - Len(c) + 1) : SubSeq(s, i, i + Len(c) - 1) = c

\* two decimal digits
TwoDigits(k) == IF k < 10 THEN "0" \o ToString(k) ELSE ToString(k)

\* Number.prototype.toString of a number of at most two decimals
NumberToString(n) ==
    IF n % 100 = 0 THEN ToString(n \div 100)
    ELSE IF n % 10 = 0 THEN ToString(n \div 100) \o "." \o ToString((n % 100) \div 10)
    ELSE ToString(n \div 100) \o "." \o TwoDigits(n % 100)

\* Number.prototype.toFixed(2)
toFixed2(n) == ToString(n \div 100) \o "." \o TwoDigits(n % 100)

\* String(value)
String(v) ==
    CASE IsString(v) -> v
      [] v[1] = "number" -> NumericStr(v[2], NumberToString(v[2]))
      [] OTHER -> Str(v[1])

\* Number(value)
Number(v) ==
    CASE v[1] \in {"number", "NaN", "Infinity"} -> v
      [] v[1] = "numeric" -> Num(v[2])
      [] v[1] = "null" -> Num(0)
      [] v[1] = "string" /\ v[3] \in WhitespaceTexts -> Num(0)
      [] OTHER -> NaN

\* the value counts as true in a condition
Truthy(v) ==
    CASE v[1] \in {"undefined", "null", "NaN"} -> FALSE
      [] v[1] = "number" -> v[2] # 0
      [] v[1] = "Infinity" -> TRUE
      [] OTHER -> v[3] # ""

\* a / b on numbers; the quotient is only ever formatted to two decimals
Divide(a, b) ==
    IF a = NaN \/ b = NaN THEN NaN
    ELSE IF b[2] = 0 THEN (IF a[2] = 0 THEN NaN ELSE Infinity)
    ELSE Num((200 * a[2] + b[2]) \div (2 * b[2]))

RECURSIVE Zeros(_)
Zeros(k) == IF k <= 0 THEN "" ELSE "0" \o Zeros(k - 1)

\* String.prototype.padStart(width, '0')
padStart(s, width) == Zeros(width - Len(s)) \o s

UNDEFINED == Str("UNDEFINED")

\* validateAndSanitizeValue without the test of the trimmed string
validateAndSanitizeValueNoTrim(value, fieldName, defaultValue) ==
    IF value = Undefined \/ value = Null \/ value = Str("")
    THEN [value |-> defaultValue, isValid |-> FALSE,
          fieldName |-> fieldName, originalValue |-> value]
    ELSE [value |-> String(value), isValid |-> TRUE,
          fieldName |-> fieldName, originalValue |-> value]

validateAndSanitizeValue(value, fieldName, defaultValue) ==
    IF value = Undefined \/ value = Null \/ value = Str("")
    THEN [value |-> defaultValue, isValid |-> FALSE,
          fieldName |-> fieldName, originalValue |-> value]
    ELSE IF value[1] = "string" /\ value[3] \in WhitespaceTexts
    THEN [value |-> defaultValue, isValid |-> FALSE,
          fieldName |-> fieldName, originalValue |-> value]
    ELSE [value |-> String(value), isValid |-> TRUE,
          fieldName |-> fieldName, originalValue |-> value]

\* new EDIValidationTracker()
EDIValidationTracker == [invalidFields |-> <<>>, warnings |-> <<>>, isValid |-> TRUE]

\* addValidation recording the field without clearing this.isValid
addValidationKeepsFlag(validation, validationResult) ==
    IF ~validationResult.isValid
    THEN [validation EXCEPT !.invalidFields =
              Append(@, [field |-> validationResult.fieldName,
                         originalValue |-> validationResult.originalValue,
                         replacedWith |-> validationResult.value])]
    ELSE validation

addValidation(validation, validationResult) ==
    IF ~validationResult.isValid
    THEN [validation EXCEPT !.invalidFields =
              Append(@, [field |-> validationResult.fieldName,
                         originalValue |-> validationResult.originalValue,
                         replacedWith |-> validationResult.value]),
                            !.isValid = FALSE]
    ELSE validation

\* Object.values(...).forEach(v => validation.addValidation(v))
RECURSIVE addValidations(_, _)
addValidations(validation, validationResults) ==
    IF validationResults = <<>> THEN validation
    ELSE addValidations(addValidation(validation, Head(validationResults)),
                        Tail(validationResults))

addWarning(validation, message) ==
    [validation EXCEPT !.warnings = Append(@, message)]

getValidationSummary(validation) ==
    [isValid |-> validation.isValid,
     invalidFieldCount |-> Len(validation.invalidFields),
     invalidFields |-> validation.invalidFields,
     warnings |-> validation.warnings,
     hasUndefinedData |-> Len(validation.invalidFields) > 0]

\* the texts new Date(text) reads as a date: YYYY-MM-DDTHH:MM:SS, read in
\* local time, so that the getters give its digits back
IsDateText(s) ==
    /\ Len(s) = 19
    /\ SubSeq(s, 5, 5) = "-" /\ SubSeq(s, 8, 8) = "-" /\ SubSeq(s, 11, 11) = "T"
    /\ SubSeq(s, 14, 14) = ":" /\ SubSeq(s, 17, 17) = ":"

DTM_FORMAT_DATETIME == "204"
DTM_FORMAT_DATE == "102"

\* The tracker only ever appends.  Each helper below returns, beside its
\* value, a tracker holding what its call appends; the builder appends these
\* in the order of the calls.
RECURSIVE appendAll(_, _)
appendAll(validation, trackers) ==
    IF trackers = <<>> THEN validation
    ELSE appendAll([invalidFields |-> validation.invalidFields \o Head(trackers).invalidFields,
                    warnings |-> validation.warnings \o Head(trackers).warnings,
                    isValid |-> validation.isValid /\ Head(trackers).isValid],
                   Tail(trackers))

\* formatDate(dateString, format) of buildEDIFACTInvoice
formatDate(dateString, format) ==
    LET dateValidation == validateAndSanitizeValue(dateString, "date", UNDEFINED)
        s == dateString[3]
    IN  IF ~dateValidation.isValid
        THEN [value |-> "19700101",
              validation |-> addValidation(EDIValidationTracker, dateValidation)]
        ELSE IF ~(dateString[1] = "string" /\ IsDateText(s))
        THEN [value |-> "19700101",
              validation |-> addWarning(EDIValidationTracker,
                                 "Invalid date format: " \o String(dateString)[3])]
        ELSE IF format = DTM_FORMAT_DATETIME
        THEN [value |-> SubSeq(s, 1, 4) \o SubSeq(s, 6, 7) \o SubSeq(s, 9, 10)
                           \o SubSeq(s, 12, 13) \o SubSeq(s, 15, 16) \o SubSeq(s, 18, 19),
              validation |-> EDIValidationTracker]
        ELSE [value |-> SubSeq(s, 1, 4) \o SubSeq(s, 6, 7) \o SubSeq(s, 9, 10),
              validation |-> EDIValidationTracker]

\* formatAmount taking every amount that counts as false for a missing one
formatAmountFalsy(amount) ==
    IF ~Truthy(amount)
    THEN [value |-> "0.00",
          validation |-> addValidation(EDIValidationTracker,
                             [value |-> NumericStr(0, "0.00"), isValid |-> FALSE,
                              fieldName |-> "amount", originalValue |-> amount])]
    ELSE IF Number(amount) = NaN
    THEN [value |-> "0.00",
          validation |-> addWarning(EDIValidationTracker,
                             "Invalid amount format: " \o String(amount)[3])]
    ELSE IF Number(amount) = Infinity
    THEN [value |-> "Infinity", validation |-> EDIValidationTracker]
    ELSE [value |-> toFixed2(Number(amount)[2]), validation |-> EDIValidationTracker]

\* formatAmount(amount) of buildEDIFACTInvoice
formatAmount(amount) ==
    LET amountValidation == validateAndSanitizeValue(amount, "amount", NumericStr(0, "0.00"))
    IN  IF ~amountValidation.isValid
        THEN [value |-> "0.00",
              validation |-> addValidation(EDIValidationTracker, amountValidation)]
        ELSE IF Number(amount) = NaN
        THEN [value |-> "0.00",
              validation |-> addWarning(EDIValidationTracker,
                                 "Invalid amount format: " \o String(amount)[3])]
        ELSE IF Number(amount) = Infinity
        THEN [value |-> "Infinity", validation |-> EDIValidationTracker]
        ELSE [value |-> toFixed2(Number(amount)[2]), validation |-> EDIValidationTracker]

\* calculateVATRate(netAmount, taxAmount) of buildEDIFACTInvoice
calculateVATRate(netAmount, taxAmount) ==
    IF netAmount = Num(0) \/ netAmount = NaN \/ taxAmount = NaN
    THEN [value |-> "0.00",
          validation |-> addWarning(EDIValidationTracker,
                             "VAT rate calculation failed due to invalid amounts")]
    ELSE [value |-> toFixed2((20000 * taxAmount[2] + netAmount[2]) \div (2 * netAmount[2])),
          validation |-> EDIValidationTracker]

\* getVATCategory(vatRate), on the texts calculateVATRate returns
getVATCategory(vatRate) ==
    IF vatRate = "0.00" THEN "Z"
    ELSE IF vatRate = "5.00" THEN "L"
    ELSE "S"

\* parseSupplierAddress(supplierAddress) of buildEDIFACTInvoice
parseSupplierAddress(supplierAddress) ==
    LET addressValidation == validateAndSanitizeValue(supplierAddress, "supplierAddress", UNDEFINED)
    IN  IF ~addressValidation.isValid
        THEN [value |-> "UNDEFINED:UNDEFINED:UNDEFINED:UNDEFINED:UNDEFINED",
              validation |-> addValidation(EDIValidationTracker, addressValidation)]
        ELSE IF ~Includes(supplierAddress[3], ":")
        THEN [value |-> supplierAddress[3],
              validation |-> addWarning(EDIValidationTracker,
                                 "Supplier address format incorrect - using as-is")]
        ELSE [value |-> supplierAddress[3], validation |-> EDIValidationTracker]

\* an object, or undefined in its place
UndefinedObject == [defined |-> FALSE, props |-> [k \in {} |-> Undefined]]
Object(props) == [defined |-> TRUE, props |-> props]

\* object?.key
Get(object, key) ==
    IF object.defined /\ key \in DOMAIN object.props THEN object.props[key] ELSE Undefined

\* value || ''
OrEmpty(v) == IF Truthy(v) THEN v ELSE Str("")

\* getCSVData(): the rows of the lookup file as one object keyed by store
\* number, a later row of a store replacing an earlier one
RECURSIVE csvParsedObject(_)
csvParsedObject(rows) ==
    IF rows = <<>> THEN [k \in {} |-> Undefined]
    ELSE LET row == rows[Len(rows)]
             rest == csvParsedObject(SubSeq(rows, 1, Len(rows) - 1))
             storeNumber == row.storeNumber
         IN  IF storeNumber # Undefined /\ storeNumber # Null /\ storeNumber # Str("")
             THEN [k \in DOMAIN rest \cup {storeNumber[3]} |->
                      IF k = storeNumber[3]
                      THEN [address |-> OrEmpty(row.address), GLN |-> OrEmpty(row.gln)]
                      ELSE rest[k]]
             ELSE rest

getCSVData(rows) == Object(csvParsedObject(rows))

ConfigFields == <<"senderGLN", "receiverGLN", "buyerGLN", "deliveryPointGLN",
                  "supplierVAT", "supplierAddress", "internalVendorNumber", "paymentTerms">>
InvoiceFields == <<"invoiceNumber", "issueDate", "dueDate", "currency", "saleOrderNiceId">>
SaleOrderFields == <<"niceId", "carrierReference">>
CsvFields == <<"GLN", "address">>
ItemFields == <<"referenceId", "quantity", "price", "tax">>

\* Number(item.price) || 0, summed; the same for the tax
RECURSIVE SumOrZero(_, _)
SumOrZero(items, field) ==
    IF items = <<>> THEN 0
    ELSE LET n == Number(Head(items)[field])
         IN  (IF n[1] = "number" THEN n[2] ELSE 0) + SumOrZero(Tail(items), field)

\* one pass of the loop over the line items: the segments of the item at
\* index and what the pass appends to the tracker
lineItem(item, index) ==
    LET name(f) == "item[" \o ToString(index) \o "]." \o f
        itemValidations ==
            [k \in 1..Len(ItemFields) |->
                validateAndSanitizeValue(item[ItemFields[k]], name(ItemFields[k]),
                    CASE ItemFields[k] = "quantity" -> NumericStr(100, "1")
                      [] ItemFields[k] \in {"price", "tax"} -> NumericStr(0, "0.00")
                      [] OTHER -> UNDEFINED)]
        itemCode == IF itemValidations[1].isValid /\ Truthy(item.barcode)
                    THEN item.barcode[3] ELSE "UNDEFINED"
        barcode == IF itemCode = "UNDEFINED"
                   THEN addValidation(EDIValidationTracker,
                            [value |-> UNDEFINED, isValid |-> FALSE,
                             fieldName |-> name("barcode"), originalValue |-> Str("N/A")])
                   ELSE EDIValidationTracker
        quantity == itemValidations[2].value
        price == itemValidations[3].value
        tax == itemValidations[4].value
        lineValue == formatAmount(price)
        unitPrice == formatAmount(Divide(Number(price), Number(quantity)))
        vatRate == calculateVATRate(Number(price), Number(tax))
    IN  [segments |->
             << "LIN+" \o ToString(index + 1) \o "++" \o itemCode \o ":EN",
                "QTY+47:" \o quantity[3] \o ":EA",
                "MOA+203:" \o lineValue.value,
                "PRI+AAA:" \o unitPrice.value,
                "TAX+7+VAT+++:::" \o vatRate.value \o "+" \o getVATCategory(vatRate.value) >>,
         validation |->
             appendAll(addValidations(EDIValidationTracker, itemValidations),
                       << barcode, lineValue.validation, unitPrice.validation,
                          vatRate.validation >>)]

\* the loop over the line items, from the item at index on
RECURSIVE lineItems(_, _)
lineItems(items, index) ==
    IF index >= Len(items) THEN [segments |-> <<>>, validation |-> EDIValidationTracker]
    ELSE LET this == lineItem(items[index + 1], index)
             rest == lineItems(items, index + 1)
         IN  [segments |-> this.segments \o rest.segments,
              validation |-> appendAll(this.validation, <<rest.validation>>)]

\* segments.map(segment => segment + "'").join('\n')
RECURSIVE JoinSegments(_)
JoinSegments(segments) ==
    IF segments = <<>> THEN ""
    ELSE IF Len(segments) = 1 THEN segments[1] \o "'"
    ELSE segments[1] \o "'" \o "\n" \o JoinSegments(Tail(segments))

\* String.prototype.substring(from, to)
Substring(s, from, to) == SubSeq(s, from + 1, IF to < Len(s) THEN to ELSE Len(s))

\* the tax point date: const taxDate = invoiceValidations.dueDate.value
taxDate(config, invoiceValidations) == invoiceValidations["dueDate"].value

\* the condition of the payment terms: if (invoiceValidations.dueDate.value)
hasDueDate(invoiceValidations) == Truthy(invoiceValidations["dueDate"].value)

\* the count taken after the trailer was pushed
segmentCountAfterTrailer(segments) == Len(segments) + 3

\* const segmentCount = segments.length + 2
segmentCount(segments) == Len(segments) + 2

\* buildEDIFACTInvoice(saleOrder, invoice, items, csvData, config); the answer
\* of the barcode request of a line item is the item's field `barcode`
buildEDIFACTInvoice(saleOrder, invoice, items, csvData, config) ==
    LET configValidations ==
            [k \in 1..Len(ConfigFields) |->
                validateAndSanitizeValue(config[ConfigFields[k]],
                                         "config." \o ConfigFields[k], UNDEFINED)]
        invoiceValidationList ==
            [k \in 1..Len(InvoiceFields) |->
                validateAndSanitizeValue(invoice[InvoiceFields[k]],
                                         "invoice." \o InvoiceFields[k],
                                         IF InvoiceFields[k] = "currency"
                                         THEN Str("GBP") ELSE UNDEFINED)]
        invoiceValidations ==
            [invoiceNumber |-> invoiceValidationList[1], issueDate |-> invoiceValidationList[2],
             dueDate |-> invoiceValidationList[3], currency |-> invoiceValidationList[4],
             saleOrderNiceId |-> invoiceValidationList[5]]
        saleOrderValidations ==
            [k \in 1..Len(SaleOrderFields) |->
                validateAndSanitizeValue(saleOrder[SaleOrderFields[k]],
                                         "saleOrder." \o SaleOrderFields[k], UNDEFINED)]
        csvValidations ==
            [k \in 1..Len(CsvFields) |->
                validateAndSanitizeValue(Get(csvData, CsvFields[k]),
                                         "csvData." \o CsvFields[k], UNDEFINED)]
        noItems == IF Len(items) = 0
                   THEN addWarning(EDIValidationTracker, "No items found in invoice")
                   ELSE EDIValidationTracker
        totalItemsValue == Num(SumOrZero(items, "price"))
        totalTaxValue == Num(SumOrZero(items, "tax"))
        totalInvoiceValue == Num(SumOrZero(items, "price") + SumOrZero(items, "tax"))
        stampDate == formatDate(invoiceValidationList[2].value, DTM_FORMAT_DATE)
        stampTime == formatDate(invoiceValidationList[2].value, DTM_FORMAT_DATETIME)
        invoiceDate == formatDate(invoiceValidationList[2].value, DTM_FORMAT_DATETIME)
        taxPoint == formatDate(taxDate(config, invoiceValidations), DTM_FORMAT_DATE)
        formattedSupplierAddress == parseSupplierAddress(configValidations[6].value)
        due == IF hasDueDate(invoiceValidations)
               THEN formatDate(invoiceValidationList[3].value, DTM_FORMAT_DATE)
               ELSE [value |-> "", validation |-> EDIValidationTracker]
        detail == lineItems(items, 0)
        totalLines == formatAmount(totalItemsValue)
        taxAmount == formatAmount(totalTaxValue)
        totalInvoice == formatAmount(totalInvoiceValue)
        overallVATRate == calculateVATRate(totalItemsValue, totalTaxValue)
        niceId7 == padStart(saleOrderValidations[1].value[3], 7)
        segments ==
            << "UNB+UNOA:3+" \o configValidations[1].value[3] \o ":14+"
                   \o configValidations[2].value[3] \o ":14+"
                   \o Substring(stampDate.value, 2, Len(stampDate.value)) \o ":"
                   \o Substring(stampTime.value, 8, 12)
                   \o "+" \o niceId7 \o "++INVOIC++++1",
               "UNH+1+INVOIC:D:96A:UN:EAN008",
               "BGM+380:::MRCHI+" \o padStart(invoiceValidationList[1].value[3], 8) \o "+9",
               "DTM+3:" \o invoiceDate.value \o ":" \o DTM_FORMAT_DATETIME,
               "DTM+131:" \o taxPoint.value \o ":" \o DTM_FORMAT_DATE >>
            \o (IF Truthy(invoiceValidationList[5].value)
                THEN << "RFF+ON:" \o padStart(invoiceValidationList[5].value[3], 8) >>
                ELSE <<>>)
            \o (IF Truthy(config.vendorReference)
                THEN << "RFF+VN:" \o padStart(String(config.vendorReference)[3], 10) >>
                ELSE <<>>)
            \o
            << "NAD+BY+" \o configValidations[3].value[3]
                   \o "::9+WM. MORRISON SUPERMARKETS PLC:HILMORE HOUSE:GAIN LANE::BD3 7DL",
               "RFF+VA:343475355",
               "NAD+DP+" \o csvValidations[1].value[3] \o "::9+"
                   \o saleOrderValidations[2].value[3] \o ":" \o csvValidations[2].value[3],
               "NAD+SU+" \o configValidations[1].value[3] \o "::9+"
                   \o formattedSupplierAddress.value,
               "RFF+VA:" \o configValidations[5].value[3],
               "RFF+IA:" \o configValidations[7].value[3],
               "CUX+2:" \o invoiceValidationList[4].value[3] \o ":4" >>
            \o (IF hasDueDate(invoiceValidations)
                THEN << "PAT+1+6:::" \o configValidations[8].value[3],
                        "DTM+140:" \o due.value \o ":" \o DTM_FORMAT_DATE >>
                ELSE <<>>)
            \o detail.segments \o
            << "UNS+S",
               "CNT+2:" \o ToString(Len(items)),
               "MOA+79:" \o totalLines.value,
               "MOA+125:" \o totalLines.value,
               "MOA+124:" \o taxAmount.value,
               "MOA+77:" \o totalInvoice.value,
               "TAX+7+VAT+++:::" \o overallVATRate.value \o "+"
                   \o getVATCategory(overallVATRate.value),
               "MOA+125:" \o totalLines.value,
               "MOA+124:" \o taxAmount.value >>
        trailer ==
            << "UNT+" \o ToString(segmentCount(segments)) \o "+1",
               "UNZ+1+" \o niceId7 >>
        validation ==
            appendAll(
                addValidations(EDIValidationTracker,
                    configValidations \o invoiceValidationList
                        \o saleOrderValidations \o csvValidations),
                << noItems, stampDate.validation, stampTime.validation,
                   invoiceDate.validation, taxPoint.validation,
                   formattedSupplierAddress.validation, due.validation,
                   detail.validation,
                   totalLines.validation, totalLines.validation, taxAmount.validation,
                   totalInvoice.validation, overallVATRate.validation,
                   totalLines.validation, taxAmount.validation >>)
    IN  [ediPayload |-> JoinSegments(segments \o trailer),
         validation |-> getValidationSummary(validation)]

\* ---- the arguments of the builder
MissingValues == {Undefined, Null, Str(""), Str("  ")}

ValidConfig ==
    [senderGLN |-> Str("5012345000001"), receiverGLN |-> Str("5010251000006"),
     buyerGLN |-> Str("5010251000013"), deliveryPointGLN |-> Str("5010251000020"),
     supplierVAT |-> Str("GB123456789"),
     supplierAddress |-> Str("AMSCAN:1 HIGH ST:LEEDS::LS1 1AA"),
     internalVendorNumber |-> Str("V0042"), paymentTerms |-> Num(3000),
     vendorReference |-> Undefined, taxPointDate |-> Undefined]

ValidInvoice ==
    [invoiceNumber |-> Num(3094200), issueDate |-> Str("2024-01-15T10:30:00"),
     dueDate |-> Str("2024-02-14T00:00:00"), currency |-> Str("EUR"),
     saleOrderNiceId |-> Num(123400)]

ValidSaleOrder == [niceId |-> Num(123400), carrierReference |-> Str("0101")]

\* rows of the store lookup file
CsvRow(storeNumber) ==
    [storeNumber |-> Str(storeNumber), gln |-> Str("50102510" \o storeNumber \o "1"),
     address |-> Str("STORE " \o storeNumber \o ":MARKET ST")]

\* the store lookup object sendData hands on, and a single row of it
CsvTable == getCSVData(<<CsvRow("0202"), CsvRow("0101")>>)
CsvSingleRow == Object(csvParsedObject(<<CsvRow("0101")>>)["0101"])

\* what a caller may hand the builder as csvData: nothing (the retry), the
\* object getCSVData returns (sendData), or a single row of it
CsvArguments ==
    {UndefinedObject,
     getCSVData(<<>>),
     getCSVData(<<CsvRow("0202")>>),
     getCSVData(<<CsvRow("0101")>>),
     CsvTable,
     CsvSingleRow}

ValidItem ==
    [referenceId |-> Str("item-1"), quantity |-> Num(200), price |-> Num(1000),
     tax |-> Num(200), barcode |-> Str("5012345678900")]

\* line items whose price or tax is a number, missing or not numeric, and
\* whose barcode request answers with a barcode or with none
ItemVariants ==
    {[ValidItem EXCEPT !.price = p, !.tax = t, !.barcode = b] :
        p \in {Num(1000), Undefined, Str("abc")},
        t \in {Num(200), Num(0), Undefined, Str("abc")},
        b \in {Str("5012345678900"), Undefined}}

ItemLists(variants) == UNION {[1..n -> variants] : n \in 0..MaxItems}

RequiredFields ==
    {<<"config", ConfigFields[k]>> : k \in 1..Len(ConfigFields)}
    \cup {<<"invoice", InvoiceFields[k]>> : k \in 1..Len(InvoiceFields)}
    \cup {<<"saleOrder", SaleOrderFields[k]>> : k \in 1..Len(SaleOrderFields)}

ValidArguments(items, csvData, vendorReference, taxPointDate) ==
    [saleOrder |-> ValidSaleOrder, invoice |-> ValidInvoice, items |-> items,
     csvData |-> csvData,
     config |-> [ValidConfig EXCEPT !.vendorReference = vendorReference,
                                    !.taxPointDate = taxPointDate]]

\* calls with every required field present, over all line items
ItemCases ==
    {ValidArguments(items, CsvSingleRow, Undefined, Undefined) :
        items \in ItemLists(ItemVariants)}

\* calls with one required field missing or unreadable, over valid line items
FieldCases ==
    {[ValidArguments(items, csvData, Undefined, Undefined)
         EXCEPT ![path[1]][path[2]] = v] :
        items \in {<<>>, <<ValidItem>>}, csvData \in {CsvTable, CsvSingleRow},
        path \in RequiredFields, v \in MissingValues \cup {Str("not a date")}}

\* calls with every required field present, over what may stand for csvData
\* and the two optional config fields
CsvCases ==
    {ValidArguments(items, csvData, vendorReference, tp) :
        items \in ItemLists({ValidItem}), csvData \in CsvArguments,
        vendorReference \in {Undefined, Num(123400)},
        tp \in {Undefined, Str("2024-01-31T00:00:00")}}

\* the builder returns
BuildEDIFACTInvoice ==
    /\ ~edi.returned
    /\ edi' = [edi EXCEPT !.returned = TRUE,
                          !.result = buildEDIFACTInvoice(edi.arguments.saleOrder,
                                         edi.arguments.invoice, edi.arguments.items,
                                         edi.arguments.csvData, edi.arguments.config)]
    /\ UNCHANGED <<results, processingQueue, retryAttempts, updateTimeout, retryButtons,
                   procs, attempts, retried, limit, run, lock, manuals, order,
                   processedIds, regVars, auxVars, actuallySendToFtp, transmitted>>

\* ------------------------------------------------- the tracker on its own
\* what the actions of the objects observed on their own leave alone: the
\* ledger, the scheduler, the registry and the builder call
LedgerFrame == <<results, processingQueue, retryAttempts, updateTimeout, retryButtons,
              procs, attempts, retried, limit, run, lock, manuals, order,
              processedIds, regVars, edi, actuallySendToFtp, transmitted>>

TrackedValues == {Str("GBP"), Undefined, Str("  ")}
TrackedFields == {"currency", "invoiceNumber"}
TrackedWarnings == {"No items found in invoice"}

\* validation.addValidation(validateAndSanitizeValue(value, fieldName))
AddValidation(value, fieldName) ==
    /\ Len(accumulated) < MaxAccumulated
    /\ LET validationResult == validateAndSanitizeValue(value, fieldName, UNDEFINED)
       IN  /\ tracker' = addValidation(tracker, validationResult)
           /\ accumulated' = Append(accumulated, <<"addValidation", validationResult>>)
    /\ UNCHANGED <<LedgerFrame, apiVars, timerVars>>

\* validation.addWarning(message)
AddWarning(message) ==
    /\ Len(accumulated) < MaxAccumulated
    /\ tracker' = addWarning(tracker, message)
    /\ accumulated' = Append(accumulated, <<"addWarning", message>>)
    /\ UNCHANGED <<LedgerFrame, apiVars, timerVars>>

\* ------------------------------------------------------- the API client
\* the global `length` the condition of loopThrough's do-while reads: the
\* `let length` of the loop body is out of scope there, so the name resolves
\* to window.length, the number of frames in the window, which has none
WindowLength == 0

ApiFrame == <<LedgerFrame, trackerVars, timerVars>>

\* initializeStoklyAPI(config): replenishTokens() runs up to its first sleep,
\* of 60000 / (tokensOverMinute / maxTokensToHold) ms, which is RefillTicks
\* ticks; the grant request that follows does not pass through requester
InitializeStoklyAPI ==
    /\ Len(replenish) < MaxInitialised
    /\ tokens' = maxTokensToHold
    /\ replenish' = Append(replenish, RefillTicks)
    /\ sent' = IF replenish = <<>> THEN 0 ELSE sent
    /\ UNCHANGED <<ApiFrame, loop>>

\* the sleeps that end when the clock advances by one tick
Woken == {i \in DOMAIN replenish : replenish[i] = 1}

\* one tick passes; every replenishTokens loop whose sleep ends sets the
\* tokens and sleeps again
Tick ==
    /\ replenish # <<>>
    /\ replenish' = [i \in DOMAIN replenish |->
                        IF i \in Woken THEN RefillTicks ELSE replenish[i] - 1]
    /\ tokens' = IF Woken # {} THEN maxTokensToHold ELSE tokens
    /\ sent' = IF 1 \in Woken THEN 0 ELSE sent
    /\ UNCHANGED <<ApiFrame, loop>>

\* requester(method, url, data) from the end of its wait to the fetch: the
\* wait `while (tokens <= 0) await sleep(100)` ends with tokens positive
Requester ==
    /\ replenish # <<>>
    /\ tokens > 0
    /\ tokens' = tokens - 1
    /\ sent' = sent + 1
    /\ UNCHANGED <<ApiFrame, replenish, loop>>

\* the items the upstream API returns for one page of a listing of `total`
Page(size, total, page) ==
    [i \in 1..(IF (page + 1) * size <= total THEN size
               ELSE IF page * size < total THEN total - page * size ELSE 0)
        |-> page * size + i]

\* loopThrough(url, size, params, filter, callback) is called; the upstream
\* API holds `total` items that match the filter
LoopThrough(size, total) ==
    /\ replenish # <<>>
    /\ loop.returned
    /\ loop' = [size |-> size, total |-> total, page |-> 0, count |-> 0,
                handed |-> <<>>, pending |-> FALSE, returned |-> FALSE]
    /\ UNCHANGED <<ApiFrame, tokens, replenish, sent>>

\* the request of the next page leaves through requester
LoopThroughRequest ==
    /\ ~loop.returned /\ ~loop.pending
    /\ tokens > 0
    /\ tokens' = tokens - 1
    /\ sent' = sent + 1
    /\ loop' = [loop EXCEPT !.pending = TRUE]
    /\ UNCHANGED <<ApiFrame, replenish>>

\* the page arrives: every item goes to the callback, then the condition of
\* the do-while is evaluated
LoopThroughResponse ==
    /\ loop.pending
    /\ LET res == Page(loop.size, loop.total, loop.page)
       IN  loop' = [loop EXCEPT !.pending = FALSE,
                                !.page = @ + 1,
                                !.handed = @ \o res,
                                !.count = @ + Len(res),
                                !.returned = ~(WindowLength >= loop.size)]
    /\ UNCHANGED <<ApiFrame, tokens, replenish, sent>>

\* ------------------------------------------- handleData, step by step
maxConsecutiveFailures == 5
maxBackoffMultiplier == 8
\* const maxRetries = 3 of executeMainTaskWithRetry
maxRetriesOfTask == 3
baseDelay == 1000
maxDelay == 30000

Min(a, b) == IF a <= b THEN a ELSE b

UpperCase == "ABCDEFGHIJKLMNOPQRSTUVWXYZ"
LowerCase == "abcdefghijklmnopqrstuvwxyz"

RECURSIVE toLowerCase(_)
toLowerCase(s) ==
    IF Len(s) = 0 THEN ""
    ELSE LET c == SubSeq(s, 1, 1)
             I == {i \in 1..26 : SubSeq(UpperCase, i, i) = c}
         IN  (IF I = {} THEN c ELSE LET i == CHOOSE i \in I : TRUE
                                    IN  SubSeq(LowerCase, i, i))
             \o toLowerCase(SubSeq(s, 2, Len(s)))

\* categorizeError(error).category
categorizeError(message) ==
    LET errorMessage == toLowerCase(message)
    IN  IF Includes(errorMessage, "401") \/ Includes(errorMessage, "unauthorized")
           \/ Includes(errorMessage, "auth")
        THEN "auth"
        ELSE IF Includes(errorMessage, "403") \/ Includes(errorMessage, "forbidden")
        THEN "permission"
        ELSE IF Includes(errorMessage, "429") \/ Includes(errorMessage, "rate limit")
        THEN "rate_limit"
        ELSE IF Includes(errorMessage, "network") \/ Includes(errorMessage, "connection")
                \/ Includes(errorMessage, "timeout")
        THEN "network"
        ELSE IF Includes(errorMessage, "500") \/ Includes(errorMessage, "502")
                \/ Includes(errorMessage, "503")
        THEN "server"
        ELSE "unknown"

\* the scheduler's counters
Counters == [isApiInitialized |-> isApiInitialized,
             consecutiveFailures |-> consecutiveFailures,
             backoffMultiplier |-> backoffMultiplier]

\* recordSuccess(executionTime), the statistics left out
recordSuccess(c) ==
    [c EXCEPT !.consecutiveFailures = 0, !.backoffMultiplier = Thirtyseconds(1)]

\* recordFailure doubling the multiplier without the cap
recordFailureUncapped(c) ==
    LET n == c.consecutiveFailures + 1
    IN  [c EXCEPT !.consecutiveFailures = n,
                  !.backoffMultiplier =
                      IF n >= maxConsecutiveFailures THEN @ * 2 ELSE @]

\* recordFailure(errorMessage, executionTime), the statistics left out
recordFailure(c) ==
    LET n == c.consecutiveFailures + 1
    IN  [c EXCEPT !.consecutiveFailures = n,
                  !.backoffMultiplier =
                      IF n >= maxConsecutiveFailures
                      THEN Min(@ * 2, Thirtyseconds(maxBackoffMultiplier))
                      ELSE @]

\* handleErrorRecovery leaving isApiInitialized as it is
handleErrorRecoveryNoReset(c, category) ==
    IF category = "rate_limit"
    THEN [c EXCEPT !.backoffMultiplier =
                       Min((@ * 3) \div 2, Thirtyseconds(maxBackoffMultiplier))]
    ELSE c

\* handleErrorRecovery(error, errorResponse)
handleErrorRecovery(c, category) ==
    IF category = "auth"
    THEN [c EXCEPT !.isApiInitialized = FALSE]
    ELSE IF category = "rate_limit"
    THEN [c EXCEPT !.backoffMultiplier =
                       Min((@ * 3) \div 2, Thirtyseconds(maxBackoffMultiplier))]
    ELSE c

\* actualDelay of executeMainTaskWithRetry, in 32nds of a millisecond
actualDelay(retryCount, multiplier) ==
    Min(baseDelay * (2 ^ (retryCount - 1)) * multiplier, Thirtyseconds(maxDelay))

\* the messages sendData is made to throw
ErrorMessages == {"HTTP error! Status: 401", "HTTP error! Status: 429",
                  "HTTP error! Status: 503", "Failed to fetch"}

\* what the catch of handleData makes of the error executeMainTaskWithRetry
\* throws when the last attempt of sendData threw the message
thrownCategory == [message \in ErrorMessages |->
                      categorizeError("Task failed after 4 attempts: " \o message)]

\* let lastRunDate of sendData once the saved configuration is loaded
lastRunDate(saved) == IF saved # "" THEN saved ELSE "1970-01-01T00:00:00"

\* new Date().toISOString() of sendData: the time of the latest save
currentTimestamp == "2025-06-01T09:00:00.000Z"

\* the filter sendData passes to loopThrough
InvoiceFilter == "([invoiceNumber]=={30942})"

\* a handleData call that has taken the lock; afterAuth and needsInit are
\* history: the call began after an authentication failure that no
\* initialisation had yet followed, and none has followed since
NewTask == [pc |-> "credentials", retryCount |-> 0, delay |-> 0,
            afterAuth |-> staleSession, needsInit |-> staleSession]

FreeTask == CHOOSE r \in 1..MaxActiveTasks : r \notin DOMAIN task

TimerFrame == <<results, processingQueue, retryAttempts, updateTimeout, retryButtons,
                procs, attempts, retried, limit, run, manuals, order,
                processedIds, regVars, edi, actuallySendToFtp, transmitted,
                trackerVars, sent, loop>>

SetCounters(c) ==
    /\ isApiInitialized' = c.isApiInitialized
    /\ consecutiveFailures' = c.consecutiveFailures
    /\ backoffMultiplier' = c.backoffMultiplier

\* handleData call r returns: its finally clears the lock
Return(r, c, how, category) ==
    /\ SetCounters(c)
    /\ task' = DropProc(task, r)
    /\ lock' = NoLock
    /\ ended' = [how |-> how, category |-> category]

\* a trigger calls handleData, followed here through its own steps: up to the
\* await of waitForCredentialsAndValidate
HandleDataCalled ==
    IF lock.active /\ ~checkForStuckProcessing(lock)
    THEN UNCHANGED vars
    ELSE /\ Cardinality(DOMAIN task) < MaxActiveTasks
         /\ started < MaxTimerRuns
         /\ lock' = [active |-> TRUE, stale |-> FALSE]
         /\ task' = AddProc(task, FreeTask, NewTask)
         /\ started' = started + 1
         /\ UNCHANGED <<TimerFrame, tokens, replenish, isApiInitialized,
                        consecutiveFailures, backoffMultiplier, ended, staleSession,
                        lastInvoiceRunDate, listed>>

\* waitForCredentialsAndValidate resolves; with valid credentials the call
\* enters initializeApiIfNeeded, and past it executeMainTaskWithRetry
CredentialsValidated(r, isValid) ==
    /\ r \in DOMAIN task
    /\ task[r].pc = "credentials"
    /\ IF ~isValid
       THEN Return(r, recordFailure(Counters), "failure", "none")
       ELSE /\ task' = [task EXCEPT ![r].pc =
                            IF ~isApiInitialized \/ consecutiveFailures > 2
                            THEN "initialize" ELSE "sendData"]
            /\ UNCHANGED <<lock, ended, isApiInitialized, consecutiveFailures,
                           backoffMultiplier>>
    /\ UNCHANGED <<TimerFrame, tokens, replenish, started, staleSession,
                   lastInvoiceRunDate, listed>>

\* the awaits of initializeApiIfNeeded resolve: getApiCredentials gives
\* nothing or throws, or initializeStoklyAPI, which starts a replenishTokens
\* loop, returns false or true
ApiInitialized(r, outcome) ==
    /\ r \in DOMAIN task
    /\ task[r].pc = "initialize"
    /\ IF outcome \in {"failed", "ok"}
       THEN /\ Len(replenish) < MaxInitialised
            /\ tokens' = maxTokensToHold
            /\ replenish' = Append(replenish, RefillTicks)
       ELSE UNCHANGED <<tokens, replenish>>
    /\ IF outcome = "ok"
       THEN /\ isApiInitialized' = TRUE
            /\ staleSession' = FALSE
            /\ task' = [q \in DOMAIN task |->
                           [task[q] EXCEPT !.needsInit = FALSE,
                                           !.pc = IF q = r THEN "sendData" ELSE @]]
            /\ UNCHANGED <<lock, ended, consecutiveFailures, backoffMultiplier>>
       ELSE /\ Return(r, recordFailure(IF outcome = "threw"
                                       THEN [Counters EXCEPT !.isApiInitialized = FALSE]
                                       ELSE Counters),
                      "failure", "none")
            /\ UNCHANGED staleSession
    /\ UNCHANGED <<TimerFrame, started, lastInvoiceRunDate, listed>>

\* an attempt of sendData inside executeMainTaskWithRetry ends.  It returns
\* after listing with its filter, saving the timestamp and dispatching what
\* was listed: the run has succeeded.  Or it throws: the next attempt follows
\* after a delay, and the last one ends the run in the catch of handleData.
SendDataEnds(r, outcome) ==
    /\ r \in DOMAIN task
    /\ task[r].pc = "sendData"
    /\ IF outcome = "ok"
       THEN /\ listed' = <<[filter |-> InvoiceFilter,
                             lastRunDate |-> lastRunDate(lastInvoiceRunDate)]>>
            /\ lastInvoiceRunDate' = currentTimestamp
            /\ Return(r, recordSuccess(Counters), "success", "none")
            /\ UNCHANGED staleSession
       ELSE IF task[r].retryCount + 1 <= maxRetriesOfTask
       THEN /\ task' = [task EXCEPT ![r].pc = "delay",
                                    ![r].retryCount = @ + 1,
                                    ![r].delay = actualDelay(task[r].retryCount + 1,
                                                             backoffMultiplier)]
            /\ UNCHANGED <<lock, ended, isApiInitialized, consecutiveFailures,
                           backoffMultiplier, staleSession, lastInvoiceRunDate, listed>>
       ELSE LET category == thrownCategory[outcome]
            IN  /\ Return(r, handleErrorRecovery(recordFailure(Counters), category),
                          "failure", category)
                /\ staleSession' = (staleSession \/ category = "auth")
                /\ UNCHANGED <<lastInvoiceRunDate, listed>>
    /\ UNCHANGED <<TimerFrame, tokens, replenish, started>>

\* the delay before the next attempt is over
DelayEnds(r) ==
    /\ r \in DOMAIN task
    /\ task[r].pc = "delay"
    /\ task' = [task EXCEPT ![r].pc = "sendData", ![r].delay = 0]
    /\ UNCHANGED <<TimerFrame, tokens, replenish, lock, started, ended, staleSession,
                   isApiInitialized, consecutiveFailures, backoffMultiplier,
                   lastInvoiceRunDate, listed>>

\* ------------------------------------------------------------ specification
Next ==
    \/ HandleData
    \/ \E r \in DOMAIN run : RunAborts(r)
    \/ \E r \in DOMAIN run, n \in 1..RunsLeft : SendDataBegin(r, n)
    \/ \E p \in DOMAIN procs, ok \in BOOLEAN : ItemsDone(p, ok)
    \/ \E p \in DOMAIN procs, ok \in BOOLEAN : SaleOrderDone(p, ok)
    \/ \E p \in DOMAIN procs, o \in {"threw", "undefined", "valid"} : BuildDone(p, o)
    \/ \E p \in DOMAIN procs, ok \in BOOLEAN : CredsDone(p, ok)
    \/ \E p \in DOMAIN procs, ok \in BOOLEAN : TransmitDone(p, ok)
    \/ \E id \in AllIds : Retry(id)
    \/ UpdateDisplayTimer
    \/ \E k \in DOMAIN results : TimePasses(k)
    \/ \E i \in DOMAIN results : DismissResult(i)
    \/ ClearAllResults
    \/ \E i \in DOMAIN results : SaveEditedEdi(i)
    \/ \E i \in DOMAIN results : SaveAndTransmitEditedEdi(i)
    \/ \E i \in DOMAIN results : ResendEdiPayload(i)
    \/ \E oid \in manuals, ok \in BOOLEAN : ManualTransmitDone(oid, ok)

Spec == Init /\ [][Next]_vars

\* One invoice followed through several scheduled runs, in both builds, with
\* the registry handler and without the clock and the other operator actions.
InitDeep == InitWith([runs |-> DeepRuns, retries |-> DeepRetried], BOOLEAN)

NextDeep ==
    \/ HandleData
    \/ \E r \in DOMAIN run : RunAborts(r)
    \/ \E r \in DOMAIN run, n \in 1..RunsLeft : SendDataBegin(r, n)
    \/ \E p \in DOMAIN procs, ok \in BOOLEAN : ItemsDone(p, ok)
    \/ \E p \in DOMAIN procs, ok \in BOOLEAN : SaleOrderDone(p, ok)
    \/ \E p \in DOMAIN procs, o \in {"threw", "undefined", "valid"} : BuildDone(p, o)
    \/ \E p \in DOMAIN procs, ok \in BOOLEAN : CredsDone(p, ok)
    \/ \E p \in DOMAIN procs, ok \in BOOLEAN : TransmitDone(p, ok)
    \/ \E id \in AllIds : Retry(id)
    \/ UpdateDisplayTimer
    \/ \E id \in Invoices :
          ~isInvoiceProcessed(processedIds, id) /\ MarkInvoiceProcessed(id)

SpecDeep == InitDeep /\ [][NextDeep]_vars

\* The registry handlers alone, called in any order with the ids of RegIds;
\* no scheduled run and no retry.
InitReg == InitWith([runs |-> 0, retries |-> 0], {TRUE})

NextReg ==
    \/ \E id \in RegIds : MarkInvoiceProcessed(id)
    \/ GetInvoiceStats
    \/ ExportProcessedInvoices
    \/ \E keepRecent \in 0..MaxKeep : ClearProcessedInvoices(keepRecent)
    \/ SetupInvoiceTracking
    \/ DayPasses

SpecReg == InitReg /\ [][NextReg]_vars

\* The builder alone, on arguments drawn at the start.
InitEdi ==
    /\ InitLedger([runs |-> 0, retries |-> 0], {TRUE})
    /\ order = IdNum
    /\ InitAux
    /\ \E arguments \in ItemCases \cup FieldCases \cup CsvCases :
           edi = [returned |-> FALSE, arguments |-> arguments, result |-> <<>>]

NextEdi == BuildEDIFACTInvoice

SpecEdi == InitEdi /\ [][NextEdi]_vars

\* One tracker from its construction, fed results and warnings in any order.
InitTracker == InitWith([runs |-> 0, retries |-> 0], {TRUE}) /\ order = IdNum

NextTracker ==
    \/ \E value \in TrackedValues, fieldName \in TrackedFields :
          AddValidation(value, fieldName)
    \/ \E message \in TrackedWarnings : AddWarning(message)

SpecTracker == InitTracker /\ [][NextTracker]_vars

\* The API client: initialisations, the clock, requests and one listing at a
\* time of up to MaxListed items in pages of up to MaxPageSize.
InitApi == InitWith([runs |-> 0, retries |-> 0], {TRUE}) /\ order = IdNum

NextApi ==
    \/ InitializeStoklyAPI
    \/ Tick
    \/ Requester
    \/ \E size \in 1..MaxPageSize, total \in 0..MaxListed : LoopThrough(size, total)
    \/ LoopThroughRequest
    \/ LoopThroughResponse

SpecApi == InitApi /\ [][NextApi]_vars

\* The scheduler's bookkeeping: up to MaxTimerRuns handleData calls, at most
\* MaxActiveTasks at a time and MaxInitialised of them initialising the API,
\* followed through credentials, API initialisation, the attempts of sendData
\* and the error recovery, with the clock of the lock; dispatch is left to
\* sendData.
InitTimer == InitWith([runs |-> 0, retries |-> 0], {TRUE}) /\ order = IdNum

NextTimer ==
    \/ HandleDataCalled
    \/ LockAges
    \/ \E r \in DOMAIN task, isValid \in BOOLEAN : CredentialsValidated(r, isValid)
    \/ \E r \in DOMAIN task, outcome \in {"none", "threw", "failed", "ok"} :
          ApiInitialized(r, outcome)
    \/ \E r \in DOMAIN task, outcome \in {"ok"} \cup ErrorMessages :
          SendDataEnds(r, outcome)
    \/ \E r \in DOMAIN task : DelayEnds(r)

SpecTimer == InitTimer /\ [][NextTimer]_vars

\* The triggers of handleData against the lock and the clock, in the build
\* that transmits, without operator actions.
InitLock == InitWith([runs |-> LockRuns, retries |-> 0], {TRUE})

NextLock ==
    \/ HandleData
    \/ LockAges
    \/ \E r \in DOMAIN run : RunAborts(r)
    \/ \E r \in DOMAIN run, n \in 1..RunsLeft : SendDataBegin(r, n)
    \/ \E p \in DOMAIN procs, ok \in BOOLEAN : ItemsDone(p, ok)
    \/ \E p \in DOMAIN procs, ok \in BOOLEAN : SaleOrderDone(p, ok)
    \/ \E p \in DOMAIN procs, o \in {"threw", "undefined", "valid"} : BuildDone(p, o)
    \/ \E p \in DOMAIN procs, ok \in BOOLEAN : CredsDone(p, ok)
    \/ \E p \in DOMAIN procs, ok \in BOOLEAN : TransmitDone(p, ok)

SpecLock == InitLock /\ [][NextLock]_vars

\* One invoice followed through repeated operator retries, in the build that
\* transmits, without the clock and without dismissing or clearing results.
InitCap == InitWith([runs |-> CapRuns, retries |-> CapRetried], {TRUE})

NextCap ==
    \/ HandleData
    \/ \E r \in DOMAIN run : RunAborts(r)
    \/ \E r \in DOMAIN run, n \in 1..RunsLeft : SendDataBegin(r, n)
    \/ \E p \in DOMAIN procs, ok \in BOOLEAN : ItemsDone(p, ok)
    \/ \E p \in DOMAIN procs, ok \in BOOLEAN : SaleOrderDone(p, ok)
    \/ \E p \in DOMAIN procs, o \in {"threw", "undefined", "valid"} : BuildDone(p, o)
    \/ \E p \in DOMAIN procs, ok \in BOOLEAN : CredsDone(p, ok)
    \/ \E p \in DOMAIN procs, ok \in BOOLEAN : TransmitDone(p, ok)
    \/ \E id \in AllIds : Retry(id)
    \/ UpdateDisplayTimer

SpecCap == InitCap /\ [][NextCap]_vars

\* ------------------------------------------------------------- properties
\* C1: when the validation summary of the built document has hasUndefinedData,
\* the processInvoice call returns in that step: it never reaches the reading
\* of the credentials and the call of the transport.
C1_GateHaltsBeforeTransport ==
    [][\A p \in DOMAIN procs : BuildDone(p, "undefined") => p \notin DOMAIN procs']_vars

\* the gate has fired for a call p, which has returned
C1_Witness ==
    \E i \in DOMAIN results : \E p \in 1..attempts :
        results[i].validationResult = ValidationOf(p) /\ p \notin DOMAIN procs

\* C2: when the gate fires for a call whose own entry is in processing, the
\* call leaves that entry with the built payload and the validation summary,
\* the edi step success, the transmission step not-attempted and the status
\* error.
C2_GateRecordsOnEntry ==
    [][\A p \in DOMAIN procs :
        LET i == IndexOfOid(results, p)
            j == IndexOfOid(results', p)
        IN  (BuildDone(p, "undefined") /\ i # 0 /\ results[i].status = "processing")
            => /\ j # 0
               /\ results'[j].ediPayload = EdiOf(p)
               /\ results'[j].validationResult = ValidationOf(p)
               /\ results'[j].steps[4].status = "success"
               /\ results'[j].steps[5].status = "not-attempted"
               /\ results'[j].status = "error"]_vars

\* C3: when the transport fails for a call whose own entry is the one in
\* processing, the call leaves that entry with the transmission step in error
\* with the message of the transport, the four earlier steps success, the
\* status error and the built payload.
C3_TransportFailureOnTransmissionStep ==
    [][\A p \in DOMAIN procs :
        LET i == IndexOfOid(results, p)
            j == IndexOfOid(results', p)
        IN  (/\ TransmitDone(p, FALSE)
             /\ i # 0
             /\ i = FindLatest(results, procs[p].invoiceId, "processing"))
            => /\ j # 0
               /\ results'[j].steps[5].status = "error"
               /\ Len(results'[j].steps[5].error) > 0
               /\ results'[j].steps[5].error[Len(results'[j].steps[5].error)]
                      = TransportError[1]
               /\ \A k \in 1..4 : results'[j].steps[k].status = "success"
               /\ results'[j].status = "error"
               /\ results'[j].ediPayload = EdiOf(p)]_vars

\* C4: when the transport succeeds for a call whose own entry is the one in
\* processing, the call leaves that entry with the transmission step success,
\* the status success and the transmitted payload.
C4_TransportSuccessRecorded ==
    [][\A p \in DOMAIN procs :
        LET i == IndexOfOid(results, p)
            j == IndexOfOid(results', p)
        IN  (/\ TransmitDone(p, TRUE)
             /\ i # 0
             /\ i = FindLatest(results, procs[p].invoiceId, "processing"))
            => /\ j # 0
               /\ results'[j].steps[5].status = "success"
               /\ results'[j].status = "success"
               /\ results'[j].ediPayload = EdiOf(p)]_vars

\* C5: after the step in which the transport returned success for an invoice,
\* the registry holds the id of that invoice exactly once.
C5_SuccessRegisteredOnce ==
    [][\A p \in DOMAIN procs :
        TransmitDone(p, TRUE)
        => Cardinality({k \in DOMAIN processedIds' :
                           processedIds'[k] = procs[p].invoiceId}) = 1]_vars

\* C6: no call of processInvoice made by a scheduled run invokes the
\* transport for an invoice the transport has accepted before.
C6_NoRetransmissionAcrossRuns ==
    [][\A p \in DOMAIN procs :
        (CredsDone(p, TRUE) /\ procs[p].origin = "run")
        => procs[p].invoiceId \notin transmitted]_vars

\* C7: in every entry each step after a step in error is not-attempted, and
\* while an entry has a step in error no step after it becomes success (a
\* retry first takes the error away).
C7_LedgerMonotonic ==
    /\ [](\A i \in DOMAIN results : \A k, l \in 1..NumSteps :
             (k < l /\ results[i].steps[k].status = "error")
             => results[i].steps[l].status = "not-attempted")
    /\ [][\A i \in DOMAIN results :
            LET j == IndexOfOid(results', results[i].oid)
            IN  j # 0 => \A k, l \in 1..NumSteps :
                   (k < l /\ results[i].steps[k].status = "error"
                          /\ results'[j].steps[l].status = "success")
                   => results[i].steps[l].status = "success"]_vars

\* an entry failed at the items step while a later call for the same invoice
\* is in flight
C7_Witness ==
    \E i \in DOMAIN results :
        /\ results[i].steps[2].status = "error"
        /\ results[i].steps[5].status = "not-attempted"
        /\ \E p \in DOMAIN procs : procs[p].invoiceId = results[i].invoiceId

\* C8: an entry has status success only if all five steps are success.
C8_SuccessOnlyIfAllStepsSuccess ==
    \A i \in DOMAIN results :
        results[i].status = "success"
        => \A k \in 1..NumSteps : results[i].steps[k].status = "success"

\* C9: the status of an entry changes only from processing to success or
\* error, and the status and the step statuses of an entry in success or error
\* change in no step but a retry of its invoice, which takes an entry in
\* error back to processing with the errors of its steps cleared.
C9_TerminalUnlessRetried ==
    [][\A i \in DOMAIN results :
        LET r == results[i]
            j == IndexOfOid(results', r.oid)
            retriedNow == /\ \E id \in AllIds : id = r.invoiceId /\ Retry(id)
                          /\ r.status = "error"
                          /\ results'[j].steps = resetForRetry(r).steps
        IN  j # 0 =>
            /\ results'[j].status # r.status
               => \/ r.status = "processing" /\ results'[j].status \in {"success", "error"}
                  \/ retriedNow /\ results'[j].status = "processing"
            /\ (r.status \in {"success", "error"} /\ results'[j].steps # r.steps)
               => retriedNow]_vars

\* an entry in error on which a manual transmission has ended, while a call
\* of processInvoice for the same invoice is in flight
C9_Witness ==
    \E i \in DOMAIN results :
        /\ results[i].status = "error"
        /\ results[i].manualTransmissionStatus \in {"success", "error"}
        /\ \E p \in DOMAIN procs : procs[p].invoiceId = results[i].invoiceId

\* C10: a retry of an invoice with an entry in error leaves the number of
\* ledger entries of that invoice as it was.
C10_RetryKeepsEntryCount ==
    [][\A id \in AllIds :
        (Retry(id) /\ FindLatest(results, id, "error") # 0)
        => Cardinality({i \in DOMAIN results' : results'[i].invoiceId = id})
             = Cardinality({i \in DOMAIN results : results[i].invoiceId = id})]_vars

\* C11: a retry is accepted (it starts a processInvoice call) only while fewer
\* than maxRetries retries of the invoice have been accepted.  Under SpecCap
\* no result is dismissed or cleared and every retry is of the one listed
\* invoice, so `retried` counts the accepted retries of that invoice.
C11_RetryCap ==
    [][\A id \in AllIds : Retry(id) => retried < maxRetries]_vars

\* C12: while a handleData call is in flight that began no more than 10
\* minutes ago, no step starts another one.
C12_NoSecondRunWhileFresh ==
    [][(\E r \in DOMAIN run : ~run[r].old) => DOMAIN run' \subseteq DOMAIN run]_vars

\* C13: a trigger that finds the lock set for more than 10 minutes resets it
\* and its handleData call goes on with the lock taken anew; while the lock
\* has been set for 10 minutes or less, no trigger clears it or starts a call:
\* it changes only when a call in flight ends or when it grows stale.
C13_StaleLockOverride ==
    /\ []((/\ lock.active /\ lock.stale
           /\ Cardinality(DOMAIN run) < MaxActiveRuns /\ RunsLeft > 0)
          => ENABLED (/\ HandleData
                      /\ lock' = [active |-> TRUE, stale |-> FALSE]
                      /\ FreeRun \in DOMAIN run'))
    /\ [][(lock.active /\ ~lock.stale)
          => \/ DOMAIN run' = DOMAIN run /\ lock' = lock
             \/ DOMAIN run' = DOMAIN run /\ lock' = [active |-> TRUE, stale |-> TRUE]
             \/ DOMAIN run' \subseteq DOMAIN run /\ DOMAIN run' # DOMAIN run
                /\ lock' = NoLock]_vars

\* the override has fired: a call that began over 10 minutes ago and the call
\* of the trigger that reset its lock are both in flight
C13_Witness ==
    /\ lock = [active |-> TRUE, stale |-> FALSE]
    /\ \E r1, r2 \in DOMAIN run : run[r1].old /\ ~run[r2].old

\* C14: every processInvoice call in flight that a scheduled run made is the
\* current call of a handleData call in flight, so each run has at most one
\* call in flight and begins the next invoice only when it has returned.
C14_OneInvoiceAtATime ==
    {p \in DOMAIN procs : procs[p].origin = "run"}
        = {run[r].cur : r \in DOMAIN run} \ {0}

\* a run has one invoice in flight and another listed invoice waiting
C14_Witness ==
    \E r \in DOMAIN run :
        run[r].cur \in DOMAIN procs /\ run[r].todo # <<>>

\* C15: when the items request or the sale order request of a call fails
\* while the entry of the call is in the ledger, the call returns in that step
\* without transmitting, and at the return the entry has that step in error
\* with the message of the failure and every later step not-attempted.
C15_FetchFailureEndsPipeline ==
    [][\A p \in DOMAIN procs : \A s \in {2, 3} :
        LET failed == IF s = 2 THEN ItemsDone(p, FALSE) ELSE SaleOrderDone(p, FALSE)
            cause == IF s = 2 THEN ItemsError ELSE SaleOrderError
            prefix == IF s = 2 THEN <<"Failed to retrieve items: ">>
                               ELSE <<"Failed to retrieve sale order: ">>
            i == IndexOfOid(results, p)
            res == failInvoiceProcessing(Mgr, procs[p].invoiceId, StepIds[s],
                                         prefix \o cause).results
        IN  (failed /\ i # 0)
            => /\ p \notin DOMAIN procs'
               /\ transmitted' = transmitted
               /\ res[i].steps[s].status = "error"
               /\ res[i].steps[s].error = prefix \o cause
               /\ \A k \in (s+1)..NumSteps :
                      res[i].steps[k].status = "not-attempted"]_vars

C17_UpdateStepTouchesLatestProcessing ==
    \A p \in DOMAIN procs : \A k \in 1..NumSteps : \A st \in {"processing", "success", "error"} :
        LET id == procs[p].invoiceId
            S == {i \in DOMAIN results :
                     results[i].invoiceId = id /\ results[i].status = "processing"}
            res == updateStepStatus(Mgr, id, StepIds[k], st, TransportError, NoData).results
        IN  /\ Len(res) = Len(results)
            /\ \A i \in S :
                  (\A j \in S \ {i} : results[j].startTime < results[i].startTime)
                  => /\ res[i].steps[k].status = st
                     /\ \A l \in (1..NumSteps) \ {k} : res[i].steps[l] = results[i].steps[l]
                     /\ \A j \in (DOMAIN results) \ {i} : res[j] = results[j]

\* a call is in flight while two entries of its invoice are in processing
C17_Witness ==
    \E p \in DOMAIN procs : \E i, j \in DOMAIN results :
        /\ i # j
        /\ results[i].invoiceId = procs[p].invoiceId /\ results[i].status = "processing"
        /\ results[j].invoiceId = procs[p].invoiceId /\ results[j].status = "processing"

\* C18: updateStepStatus for an invoice id without an entry in processing, or
\* for a step id that is none of the five, returns the manager as it was:
\* entries, steps, statuses, queue and pending display update.
C18_UpdateStepNoOp ==
    \A id \in AllIds : \A sid \in {StepIds[k] : k \in 1..NumSteps} \cup {"unknown"} :
        \A st \in {"processing", "success", "error"} :
            (\/ sid = "unknown"
             \/ ~\E i \in DOMAIN results :
                    results[i].invoiceId = id /\ results[i].status = "processing")
            => updateStepStatus(Mgr, id, sid, st, TransportError, EdiOf(1)) = Mgr

\* a call is in flight whose invoice has entries, none of them in processing
C18_Witness ==
    \E p \in DOMAIN procs :
        /\ \E i \in DOMAIN results : results[i].invoiceId = procs[p].invoiceId
        /\ \A i \in DOMAIN results :
              results[i].invoiceId = procs[p].invoiceId => results[i].status # "processing"

C20_ManualTransmissionSubState ==
    [][/\ \A i \in DOMAIN results :
            (SaveAndTransmitEditedEdi(i) \/ ResendEdiPayload(i))
            => /\ Len(results') = Len(results)
               /\ results'[i].status = results[i].status
               /\ \A k \in 1..NumSteps :
                      results'[i].steps[k].status = results[i].steps[k].status
               /\ results'[i].manualTransmissionStatus = "processing"
       /\ \A oid \in manuals : \A ok \in BOOLEAN :
            ManualTransmitDone(oid, ok)
            => /\ Len(results') = Len(results)
               /\ \A i \in DOMAIN results :
                     results[i].oid = oid
                     => /\ results[i].manualTransmissionStatus = "processing"
                        /\ results'[i].status = results[i].status
                        /\ \A k \in 1..NumSteps :
                               results'[i].steps[k].status = results[i].steps[k].status
                        /\ results'[i].manualTransmissionStatus
                               = IF ok THEN "success" ELSE "error"]_vars

\* C21: a markInvoiceAsProcessed of an id returns true when the id has not
\* been marked since the last clear (and was not kept by it), and false when
\* it has.  The body of the handler has no await between reading and writing
\* the store, so two calls never interleave.
C21_MarkReturnsTrueOnce ==
    [][\A id \in RegIds :
          MarkInvoiceProcessed(id) => ipcReply' = <<"mark", id \notin marked>>]_vars

\* an id has been marked again and the handler has answered false
C21_Witness ==
    /\ ipcReply = <<"mark", FALSE>>
    /\ Len(processedIds) >= 2

\* C22: the registry holds no id twice, and totalProcessed is the number of
\* distinct ids marked since the last clear, those kept by it included.
C22_NoDuplicateIds ==
    /\ \A i, j \in DOMAIN processedIds : processedIds[i] = processedIds[j] => i = j
    /\ totalProcessed(processedIds) = Cardinality(marked)

\* the only id of the registry has been marked again: the total is still 1
C22_Witness ==
    /\ ipcReply = <<"mark", FALSE>>
    /\ totalProcessed(processedIds) = 1

\* C23: a clear with keepRecent = 0 empties the registry, a clear with
\* keepRecent > 0 leaves exactly the min(keepRecent, size) ids added last,
\* and no other step removes an id.
C23_ShrinksOnlyByClear ==
    [][/\ \A keepRecent \in 0..MaxKeep :
            LET n == Len(processedIds)
                kept == IF keepRecent < n THEN keepRecent ELSE n
            IN  ClearProcessedInvoices(keepRecent)
                => processedIds' = IF keepRecent = 0 THEN <<>>
                                   ELSE SubSeq(processedIds, n - kept + 1, n)
       /\ (~\E keepRecent \in 0..MaxKeep : ClearProcessedInvoices(keepRecent))
            => \A i \in DOMAIN processedIds : InSeq(processedIds', processedIds[i])]_vars

\* ----------------------------------------------------------------- C24
\* the arguments lack the required field: it is undefined, null, empty or
\* whitespace only
FieldMissing(arguments, path) == arguments[path[1]][path[2]] \in MissingValues

FieldName(path) == path[1] \o "." \o path[2]

InvalidFieldNames(result) ==
    {result.validation.invalidFields[i].field : i \in DOMAIN result.validation.invalidFields}

\* C24: a build whose arguments lack a required config, invoice or sale-order
\* field returns a payload, lists the field by its exact name among the
\* invalid fields and reports hasUndefinedData
C24_MissingFieldIsNamed ==
    edi.returned =>
        \A path \in RequiredFields :
            FieldMissing(edi.arguments, path) =>
                /\ Includes(edi.result.ediPayload, "UNZ+1+")
                /\ FieldName(path) \in InvalidFieldNames(edi.result)
                /\ edi.result.validation.hasUndefinedData

C24_Witness ==
    /\ edi.returned
    /\ edi.arguments.config.supplierVAT = Str("  ")
    /\ "config.supplierVAT" \in InvalidFieldNames(edi.result)
    /\ edi.result.validation.hasUndefinedData

\* ----------------------------------------------------------------- C25
Present(v) == v \notin MissingValues

\* every config, invoice, sale-order, store-lookup and line-item field is
\* present and every barcode request answers with a barcode
FullyValid(arguments) ==
    /\ \A path \in RequiredFields : Present(arguments[path[1]][path[2]])
    /\ Present(Get(arguments.csvData, "GLN"))
    /\ Present(Get(arguments.csvData, "address"))
    /\ \A i \in DOMAIN arguments.items :
           /\ \A k \in DOMAIN ItemFields : Present(arguments.items[i][ItemFields[k]])
           /\ Truthy(arguments.items[i].barcode)

BadAmount(v) == v \in MissingValues \/ Number(v) = NaN

\* the sum of the field over the items where it is a number
RECURSIVE SumOfNumbers(_, _)
SumOfNumbers(items, field) ==
    IF items = <<>> THEN 0
    ELSE (IF BadAmount(Head(items)[field]) THEN 0 ELSE Number(Head(items)[field])[2])
         + SumOfNumbers(Tail(items), field)

\* C26: a line item whose price or tax is missing or not numeric counts as 0
\* in the totals, leaves a warning in warnings[] and is no invalid field, so
\* that it does not make the build report undefined data
C26_BadAmountIsWarningOnly ==
    edi.returned =>
        \A i \in DOMAIN edi.arguments.items :
            LET item == edi.arguments.items[i]
                index == ToString(i - 1)
            IN  (BadAmount(item.price) \/ BadAmount(item.tax)) =>
                    /\ Includes(edi.result.ediPayload, "MOA+79:"
                           \o toFixed2(SumOfNumbers(edi.arguments.items, "price")) \o "'")
                    /\ Includes(edi.result.ediPayload, "MOA+124:"
                           \o toFixed2(SumOfNumbers(edi.arguments.items, "tax")) \o "'")
                    /\ edi.result.validation.warnings # <<>>
                    /\ ("item[" \o index \o "].price") \notin InvalidFieldNames(edi.result)
                    /\ ("item[" \o index \o "].tax") \notin InvalidFieldNames(edi.result)

\* ----------------------------------------------------------------- C27
\* the row of the store lookup table whose key is the order's carrier
\* reference
HasStoreRow(arguments) ==
    /\ arguments.csvData.defined
    /\ arguments.saleOrder.carrierReference[1] = "string"
    /\ arguments.saleOrder.carrierReference[3] \in DOMAIN arguments.csvData.props
    /\ arguments.saleOrder.carrierReference[3] \notin {"GLN", "address"}

StoreRow(arguments) == arguments.csvData.props[arguments.saleOrder.carrierReference[3]]

\* C27: when the lookup table has a row for the order's carrier reference, the
\* delivery point segment carries the GLN and address of that row and neither
\* of the two is an invalid field
C27_DeliveryPointFromStoreRow ==
    (edi.returned /\ HasStoreRow(edi.arguments)) =>
        /\ Includes(edi.result.ediPayload,
               "NAD+DP+" \o StoreRow(edi.arguments).GLN[3] \o "::9+"
                   \o edi.arguments.saleOrder.carrierReference[3] \o ":"
                   \o StoreRow(edi.arguments).address[3] \o "'")
        /\ "csvData.GLN" \notin InvalidFieldNames(edi.result)
        /\ "csvData.address" \notin InvalidFieldNames(edi.result)

\* ----------------------------------------------------------------- C28
IsDate(v) == v[1] = "string" /\ IsDateText(v[3])

\* YYYYMMDD of a date text
DateDigits(v) == SubSeq(v[3], 1, 4) \o SubSeq(v[3], 6, 7) \o SubSeq(v[3], 9, 10)

\* C28: the tax point segment carries the configured tax point date when one
\* is configured and the issue date of the invoice otherwise
C28_TaxPointDate ==
    (edi.returned /\ IsDate(edi.arguments.invoice.issueDate)) =>
        Includes(edi.result.ediPayload,
            "DTM+131:"
              \o DateDigits(IF IsDate(edi.arguments.config.taxPointDate)
                            THEN edi.arguments.config.taxPointDate
                            ELSE edi.arguments.invoice.issueDate)
              \o ":102'")

\* ----------------------------------------------------------------- C29
\* C29: the payment terms segment and the due date segment are in the payload
\* exactly when the invoice has a due date
C29_PaymentTermsIffDueDate ==
    edi.returned =>
        /\ Includes(edi.result.ediPayload, "PAT+1+6:::") <=> Present(edi.arguments.invoice.dueDate)
        /\ Includes(edi.result.ediPayload, "DTM+140:") <=> Present(edi.arguments.invoice.dueDate)

\* ----------------------------------------------------------------- C30
\* where the separator starts in the text
SeparatorPositions(s, sep) ==
    {i \in 1..(Len(s) - Len(sep) + 1) : SubSeq(s, i, i + Len(sep) - 1) = sep}

RECURSIVE Ascending(_)
Ascending(S) ==
    IF S = {} THEN <<>>
    ELSE LET least == CHOOSE i \in S : \A j \in S : i <= j
         IN  <<least>> \o Ascending(S \ {least})

\* String.prototype.split(sep)
Split(s, sep) ==
    LET at == Ascending(SeparatorPositions(s, sep))
    IN  [k \in 1..(Len(at) + 1) |->
            SubSeq(s, IF k = 1 THEN 1 ELSE at[k - 1] + Len(sep),
                      IF k = Len(at) + 1 THEN Len(s) ELSE at[k] - 1)]

\* the segments of a payload: payload.split("'\n")
PayloadSegments(payload) == Split(payload, "'" \o "\n")

\* C30: the number in the message trailer is the number of segments before
\* the trailer plus 2, and it is the number of segments the payload splits
\* into on apostrophe and newline
C30_TrailerCountsSegments ==
    edi.returned =>
        LET pieces == PayloadSegments(edi.result.ediPayload)
        IN  \E u \in DOMAIN pieces :
                /\ \A k \in DOMAIN pieces : SubSeq(pieces[k], 1, 4) = "UNT+" <=> k = u
                /\ pieces[u] = "UNT+" \o ToString((u - 1) + 2) \o "+1"
                /\ pieces[u] = "UNT+" \o ToString(Len(pieces)) \o "+1"

C30_Witness ==
    /\ edi.returned
    /\ Len(edi.arguments.items) = 2
    /\ Includes(edi.result.ediPayload, "RFF+VN:")
    /\ Len(PayloadSegments(edi.result.ediPayload)) = 37
    /\ Includes(edi.result.ediPayload, "UNT+37+1")

\* C31: the tracker's isValid is true exactly as long as no result with
\* isValid = false has been accumulated, whatever else was accumulated before
\* or after it; the summary's hasUndefinedData is the negation of isValid,
\* and warnings count for neither
InvalidAccumulated ==
    {i \in DOMAIN accumulated :
        accumulated[i][1] = "addValidation" /\ ~accumulated[i][2].isValid}

C31_IsValidUntilFirstInvalid ==
    /\ tracker.isValid <=> InvalidAccumulated = {}
    /\ getValidationSummary(tracker).isValid = tracker.isValid
    /\ getValidationSummary(tracker).hasUndefinedData <=> ~tracker.isValid

\* an invalid result followed by a valid one and a warning
C31_Witness ==
    /\ Len(accumulated) = 3
    /\ InvalidAccumulated = {1}
    /\ accumulated[2][1] = "addValidation"
    /\ accumulated[3][1] = "addWarning"
    /\ ~tracker.isValid

\* C32: a listing that has returned asked for every page up to and including
\* the first one shorter than the page size, handed every item of those pages
\* to the callback, and returned their number
AllItems(total) == [i \in 1..total |-> i]

C32_ListsEveryPage ==
    (~loop.returned \/ loop = NoLoop)
    \/ /\ loop.page = (loop.total \div loop.size) + 1
       /\ loop.handed = AllItems(loop.total)
       /\ loop.count = loop.total

\* C38: the token count stays within 0..10 and no more than 10 requests are
\* sent between two refills of the fixed 5-second schedule, however many
\* times the API is initialised
C38_TokenBucket ==
    /\ tokens \in 0..maxTokensToHold
    /\ sent <= maxTokensToHold

\* C33: the filter of every invoice listing carries, as its lower bound, the
\* last-run date sendData has loaded from the saved configuration (the
\* default early date when none is saved)
C33_ListsSinceLastRun ==
    \A i \in DOMAIN listed :
        Includes(listed[i].filter, ">={" \o listed[i].lastRunDate \o "}")

\* C34: after a run has failed with an error classified as an authentication
\* failure the session is marked uninitialised until initializeStoklyAPI
\* succeeds again, and a run begun after the failure reaches sendData only
\* once that has happened
C34_AuthFailureForcesReinit ==
    /\ staleSession => ~isApiInitialized
    /\ \A r \in DOMAIN task :
           task[r].pc \in {"sendData", "delay"} => ~task[r].needsInit

\* a run begun after an authentication failure is listing, the session
\* initialised again
C34_Witness ==
    \E r \in DOMAIN task :
        /\ task[r].afterAuth
        /\ task[r].pc = "sendData"
        /\ isApiInitialized

\* C39: the backoff multiplier stays within [1, 8]; it grows only when a run
\* ends in a failure classified as rate-limit or as the fifth or later
\* consecutive failure, by x1.5 and x2 up to the cap; a run that succeeds
\* resets it to 1 and the failure count to 0; no delay between the attempts
\* of a run exceeds 30 seconds
Ending == DOMAIN task \ DOMAIN task'

Grown(x) == {Min(x * 2, Thirtyseconds(maxBackoffMultiplier)),
             Min((x * 3) \div 2, Thirtyseconds(maxBackoffMultiplier)),
             Min((Min(x * 2, Thirtyseconds(maxBackoffMultiplier)) * 3) \div 2,
                 Thirtyseconds(maxBackoffMultiplier))}

C39_BackoffBounded ==
    [][/\ backoffMultiplier' >= Thirtyseconds(1)
       /\ backoffMultiplier' <= Thirtyseconds(maxBackoffMultiplier)
       /\ backoffMultiplier' > backoffMultiplier =>
              /\ Ending # {}
              /\ ended'.how = "failure"
              /\ ended'.category = "rate_limit"
                    \/ consecutiveFailures' >= maxConsecutiveFailures
              /\ backoffMultiplier' \in Grown(backoffMultiplier)
       /\ (Ending # {} /\ ended'.how = "success") =>
              backoffMultiplier' = Thirtyseconds(1) /\ consecutiveFailures' = 0
       /\ \A r \in DOMAIN task' : task'[r].delay <= Thirtyseconds(maxDelay)
      ]_vars

\* the multiplier at its cap and a third retry waiting the capped 30 seconds
C39_Witness ==
    /\ backoffMultiplier = Thirtyseconds(maxBackoffMultiplier)
    /\ \E r \in DOMAIN task :
           /\ task[r].pc = "delay"
           /\ task[r].retryCount = maxRetriesOfTask
           /\ task[r].delay = Thirtyseconds(maxDelay)

\* C35: when a processInvoice call returns, whatever its origin and its
\* outcome, no entry of its invoice is left in processing, the entries of
\* the calls still in flight aside
C35_ReturnLeavesNoProcessing ==
    [][\A p \in DOMAIN procs \ DOMAIN procs' :
          \A i \in DOMAIN results' :
              (/\ results'[i].invoiceId = procs[p].invoiceId
               /\ results'[i].status = "processing")
              => results'[i].oid \in DOMAIN procs']_vars

\* C36: while a scheduled call and a retry call of the same invoice are in
\* flight, a step of one of them (an await of it resolves, or it returns)
\* changes no ledger entry but the one that call created
Acted(p) == p \notin DOMAIN procs' \/ procs'[p].pc # procs[p].pc

Concurrent(p) ==
    \E q \in DOMAIN procs :
        /\ q # p
        /\ procs[q].invoiceId = procs[p].invoiceId
        /\ procs[q].origin # procs[p].origin

C36_AttemptsDoNotMix ==
    [][\A p \in DOMAIN procs :
          (Acted(p) /\ Concurrent(p) /\ attempts' = attempts)
          => \A i \in DOMAIN results :
                 results[i].oid # p
                 => (i \in DOMAIN results' /\ results'[i] = results[i])]_vars

\* C37: when a handleData call that began over 10 minutes ago, its lock reset
\* by a later trigger, ends while the call of that trigger is in flight, the
\* lock stays as the later call set it
C37_OverriddenRunKeepsLock ==
    [][\A r \in DOMAIN run \ DOMAIN run' :
          (run[r].old /\ \E q \in DOMAIN run' : q \in DOMAIN run /\ ~run[q].old)
          => lock'.active]_vars

\* C40: the processing queue holds exactly the keys of the entries in
\* processing
C40_QueueIsProcessingKeys ==
    processingQueue =
        {KeyOf(results[i]) : i \in {j \in DOMAIN results : results[j].status = "processing"}}

====
